---- MODULE Spec2Model ----
(***************************************************************************)
(* Branch-scoped permissions, branch-scoped resources and the daily        *)
(* spreadsheet export of the multi-branch coffee-shop backend              *)
(* (studio-main/src: auth.py, models.py, main.py, sheets_exporter.py).     *)
(***************************************************************************)
EXTENDS Integers, Sequences, FiniteSets, Bags, TLC

(***************************************************************************)
(* Bounds of the model.                                                    *)
(***************************************************************************)
MaxUsers == 2

MaxBranches == 2

MaxPermissions == 2

MaxRows == 1

MaxAmount == 1

MaxDays == 2

MaxTabRows == 2

MaxCalls == 2

MaxFaults == 1

MaxMenu == 2

MaxPrice == 2

MaxQuantity == 2

MaxItems == 2

MaxOrders == 2

MaxRequests == 2

MaxTokens == 2

MaxClock == 3

MaxSales == 4

(***************************************************************************)
(* models.PermissionLevel / schemas.PermissionLevel: two str-enums with    *)
(* the same values, so members compare by their string value.              *)
(***************************************************************************)
VIEW_ONLY == "view_only"

FULL_ACCESS == "full_access"

PermissionLevel == {VIEW_ONLY, FULL_ACCESS}

UserRole == {"admin", "worker"}

UserIds == 1..MaxUsers

BranchIds == 1..MaxBranches

VARIABLES
    admins,                    \* table admins: id -> [role, is_active]
    branches,                  \* table branches: id -> [is_active]
    user_branch_permissions,   \* table user_branch_permissions: a bag of rows
    last,                      \* the last request and its response
    menu_items,                \* table menu_items: rows [id, branch_id]
    inventory,                 \* table inventory: rows [id, branch_id, current_stock]
    daily_sales,               \* table daily_sales: rows [id, branch_id, menu_item_id, date]
    daily_expenses,            \* table daily_expenses: rows [id, branch_id, date]
    opening_balances,          \* table opening_balances: rows [branch_id, amount]
    sheet,                     \* the spreadsheet: tab -> rows as get_all_values reads them
    export,                    \* the running export_day: its position and locals
    exported,                  \* history: the call of export_day that returned before
    manual,                    \* the export_day of manual_export_to_sheets
    orders,                    \* table orders: rows [id, branch_id, total_amount, status]
    order_items,               \* table order_items: rows [id, order_id, ...]
    requests,                  \* the assign_branch_permission requests in progress
    password_reset_tokens,     \* the dict of main.py: token -> [user_id, expires_at]
    password_hash,             \* column admins.password_hash: user -> password set
    utcnow,                    \* the clock read by datetime.utcnow()
    generated,                 \* the number of tokens generate_reset_token has made
    resets                     \* history: token -> successful reset_password calls

permVars == <<admins, branches, user_branch_permissions>>

dataVars == <<menu_items, inventory, daily_sales, daily_expenses, opening_balances>>

sheetVars == <<sheet, export, exported, manual>>

orderVars == <<orders, order_items>>

txVars == <<requests>>

resetVars == <<password_reset_tokens, password_hash, utcnow, generated, resets>>

vars == <<permVars, last, dataVars, sheetVars, orderVars, txVars, resetVars>>

\* Optional[int] = None of a parameter branch_id.
NoBranch == 0

\* The days of the records; requests without a date are for Today.
Days == 1..MaxDays

Today == 1

\* The tabs export_day works on: f"Sales_b{b.id}" and f"Expenses_b{b.id}".
Tabs == [kind : {"Sales", "Expenses"}, branch_id : BranchIds]

\* A spreadsheet none of whose tabs holds a value.
EmptySheet == [t \in Tabs |-> <<>>]

\* No export_day is running and none has run. `remote` is history: the calls
\* made on the worksheet of the tab in hand.
IdleExport ==
    [pc |-> "idle", target_date |-> 0, branch_id |-> NoBranch, todo |-> <<>>,
     filtered_rows |-> <<>>, swallowed |-> FALSE, calls |-> 0, faults |-> 0,
     before |-> EmptySheet, remote |-> <<>>]

NoExport == [returned |-> FALSE, target_date |-> 0, branch_id |-> NoBranch,
             sheet |-> EmptySheet]

\* The requests of assign_branch_permission that may be in progress at once.
RequestIds == 1..MaxRequests

\* No request is in progress and none has been answered.
IdleRequest ==
    [pc |-> "idle", user_id |-> 0, branch_id |-> 0, permission_level |-> "",
     existing |-> FALSE, status |-> 0]

NoRequests == [r \in RequestIds |-> IdleRequest]

\* The tokens generate_reset_token returns, in the order it returns them:
\* secrets.token_urlsafe(32) does not return a value twice.
Tokens == 1..MaxTokens

\* timedelta(hours=1) of a token's expires_at; the clock counts hours.
TokenLifetime == 1

\* password_reset_tokens = {} and no password set since the sample data.
NoTokens == <<>>

NoPasswords == [u \in UserIds |-> ""]

NoResets == [t \in Tokens |-> 0]

(***************************************************************************)
(* Requests and responses.                                                 *)
(***************************************************************************)
\* `body` is the set of rows a read returns. `granted` is history: the level that the request immediately before gave
\* the same (user_id, branch_id) by a successful assign_branch_permission,
\* "" when the request before was anything else.
Response(op, user_id, branch_id, permission_level, status, detail) ==
    [op |-> op, user_id |-> user_id, branch_id |-> branch_id,
     permission_level |-> permission_level, status |-> status, detail |-> detail,
     granted |-> "", body |-> {}]

NoRequest == Response("", 0, 0, "", 0, "")

\* An HTTPException (or an unhandled error, status 500): the arguments are
\* not part of the response.
Rejected(op, status, detail) == Response(op, 0, 0, "", status, detail)

(***************************************************************************)
(* The table user_branch_permissions.                                      *)
(***************************************************************************)
Row(user_id, branch_id, permission_level) ==
    [user_id |-> user_id, branch_id |-> branch_id,
     permission_level |-> permission_level]

\* db.query(UserBranchPermission).filter(user_id == u, branch_id == b)
PermissionRows(table, user_id, branch_id) ==
    {r \in BagToSet(table) : r.user_id = user_id /\ r.branch_id = branch_id}

\* db.query(UserBranchPermission).filter(user_id == u)
UserRows(table, user_id) ==
    {r \in BagToSet(table) : r.user_id = user_id}

RowCount(table, user_id, branch_id) ==
    LET rows == PermissionRows(table, user_id, branch_id)
    IN  IF rows = {} THEN 0 ELSE BagCardinality([r \in rows |-> table[r]])

UserRowCount(table, user_id) ==
    LET rows == UserRows(table, user_id)
    IN  IF rows = {} THEN 0 ELSE BagCardinality([r \in rows |-> table[r]])

\* database.py: the default engine is SQLite and no PRAGMA foreign_keys is
\* issued on connect, so ForeignKey columns are not enforced.
foreign_keys == FALSE

ForeignKeysHold(user_id, branch_id) ==
    foreign_keys => (user_id \in DOMAIN admins /\ branch_id \in DOMAIN branches)

\* A dropped constraint: every INSERT passes.
unique_user_branch_dropped(table, user_id, branch_id) == TRUE

\* UniqueConstraint('user_id', 'branch_id'): an INSERT of (user_id, branch_id)
\* passes only when the table holds no row of the pair.
unique_user_branch(table, user_id, branch_id) ==
    PermissionRows(table, user_id, branch_id) = {}

InsertRow(table, row) == table (+) SetToBag({row})

DeleteRow(table, row) == table (-) SetToBag({row})

\* existing.permission_level = level; db.commit()
UpdateRow(table, row, permission_level) ==
    InsertRow(DeleteRow(table, row),
              [row EXCEPT !.permission_level = permission_level])

\* The model's cap on the size of the table.
WithinCap(table) == BagCardinality(table) <= MaxPermissions

(***************************************************************************)
(* auth.py                                                                 *)
(***************************************************************************)
\* get_user: the Admin row as the handlers see it.
get_user(id) ==
    [id |-> id, role |-> admins[id].role, is_active |-> admins[id].is_active]

Allow == [status |-> 200, detail |-> ""]

Deny(status, detail) == [status |-> status, detail |-> detail]

\* get_current_active_user without the test of is_active.
get_current_active_user_any(current_user) == Allow

\* get_current_active_user: 400 for a user whose is_active is false.
get_current_active_user(current_user) ==
    IF ~current_user.is_active THEN Deny(400, "Inactive user") ELSE Allow

\* check_branch_permission with the admin test dropped.
check_branch_permission_no_admin_bypass(branch_id, required_permission, current_user, table) ==
    LET permission == PermissionRows(table, current_user.id, branch_id)
    IN  IF permission = {}
        THEN Deny(403, "No access to this branch")
        ELSE IF required_permission = FULL_ACCESS
                /\ (CHOOSE r \in permission : TRUE).permission_level # FULL_ACCESS
             THEN Deny(403, "Insufficient permissions for this branch")
             ELSE Allow

\* check_branch_permission without the level comparison.
check_branch_permission_any_level(branch_id, required_permission, current_user, table) ==
    IF current_user.role = "admin"
    THEN Allow
    ELSE IF PermissionRows(table, current_user.id, branch_id) = {}
         THEN Deny(403, "No access to this branch")
         ELSE Allow

\* check_branch_permission that demands full_access whatever is required.
check_branch_permission_always_full(branch_id, required_permission, current_user, table) ==
    IF current_user.role = "admin"
    THEN Allow
    ELSE LET permission == PermissionRows(table, current_user.id, branch_id)
         IN  IF permission = {}
             THEN Deny(403, "No access to this branch")
             ELSE IF (CHOOSE r \in permission : TRUE).permission_level # FULL_ACCESS
                  THEN Deny(403, "Insufficient permissions for this branch")
                  ELSE Allow

\* check_branch_permission(branch_id, required_permission, current_user, db)
check_branch_permission(branch_id, required_permission, current_user, table) ==
    IF current_user.role = "admin"
    THEN Allow
    ELSE LET permission == PermissionRows(table, current_user.id, branch_id)
         IN  IF permission = {}
             THEN Deny(403, "No access to this branch")
             ELSE IF required_permission = FULL_ACCESS
                     /\ (CHOOSE r \in permission : TRUE).permission_level # FULL_ACCESS
                  THEN Deny(403, "Insufficient permissions for this branch")
                  ELSE Allow

(***************************************************************************)
(* main.py: administration of users, branches and permissions.             *)
(***************************************************************************)
\* The id the database gives a new row of a table with INTEGER PRIMARY KEY.
NextId(ids) ==
    IF ids = {} THEN 1 ELSE (CHOOSE m \in ids : \A i \in ids : i <= m) + 1

ActiveBranches == {b \in DOMAIN branches : branches[b].is_active}

\* The gate of the admin endpoints without the test of the role.
AdminGate_any_role(actor) == get_current_active_user(get_user(actor))

\* Depends(get_current_active_user) followed by the handler's admin test:
\* `if not (hasattr(current_user, 'role') and current_user.role == "admin")`.
AdminGate(actor) ==
    LET current_user == get_user(actor)
    IN  IF get_current_active_user(current_user).status # 200
        THEN get_current_active_user(current_user)
        ELSE IF current_user.role # "admin"
             THEN Deny(403, "Admin access required")
             ELSE Allow

JustGranted(user_id, branch_id) ==
    IF /\ last.op = "assign_branch_permission"
       /\ last.status = 200
       /\ last.user_id = user_id
       /\ last.branch_id = branch_id
    THEN last.permission_level
    ELSE ""

Reply(r) ==
    last' = IF r.op \in {"assign_branch_permission", "revoke_branch_permission"}
               /\ r.status = 200
            THEN [r EXCEPT !.granted = JustGranted(r.user_id, r.branch_id)]
            ELSE r

\* What a handler hands to db.commit(): the table after its UPDATEs and
\* DELETEs, and the rows it INSERTs.
Plan(base, ins) == [base |-> base, ins |-> ins]

\* db.commit() raises IntegrityError when an INSERT breaks a constraint.
IntegrityHolds(plan) ==
    \A r \in plan.ins :
        /\ unique_user_branch(plan.base, r.user_id, r.branch_id)
        /\ ForeignKeysHold(r.user_id, r.branch_id)

Committed(plan) == plan.base (+) SetToBag(plan.ins)

\* db.commit() of one of the plans, or the 500 of an unhandled IntegrityError
\* (the transaction is rolled back).
CommitOrFail(plans, op, ok) ==
    \E p \in plans :
        IF IntegrityHolds(p)
        THEN /\ WithinCap(Committed(p))
             /\ user_branch_permissions' = Committed(p)
             /\ Reply(ok)
        ELSE /\ UNCHANGED user_branch_permissions
             /\ Reply(Rejected(op, 500, "IntegrityError"))

\* assign_branch_permission that leaves the level of an existing row alone.
assign_plan_keep_level(table, user_id, branch_id, permission_level) ==
    LET existing == PermissionRows(table, user_id, branch_id)
    IN  IF existing # {}
        THEN {Plan(table, {})}
        ELSE {Plan(table, {Row(user_id, branch_id, permission_level)})}

\* assign_branch_permission, main.py 3316-3332: the level of the first row
\* found is updated, or a row is inserted.
assign_plan(table, user_id, branch_id, permission_level) ==
    LET existing == PermissionRows(table, user_id, branch_id)
    IN  IF existing # {}
        THEN {Plan(UpdateRow(table, r, permission_level), {}) : r \in existing}
        ELSE {Plan(table, {Row(user_id, branch_id, permission_level)})}

\* POST /api/admin/assign-branch-permission
assign_branch_permission(actor, user_id, branch_id, permission_level) ==
    /\ actor \in DOMAIN admins
    /\ LET gate == AdminGate(actor)
           op == "assign_branch_permission"
       IN  IF gate.status # 200
           THEN /\ Reply(Rejected(op, gate.status, gate.detail))
                /\ UNCHANGED user_branch_permissions
           ELSE IF permission_level \notin {"view_only", "full_access"}
           THEN /\ Reply(Rejected(op, 400, "Invalid request body"))
                /\ UNCHANGED user_branch_permissions
           ELSE CommitOrFail(
                    assign_plan(user_branch_permissions, user_id, branch_id,
                                permission_level),
                    op, Response(op, user_id, branch_id, permission_level, 200, ""))
    /\ UNCHANGED <<admins, branches>>

\* revoke_branch_permission that deletes every row of the user.
revoke_plan_all_of_user(table, user_id, branch_id) ==
    {Plan([r \in (BagToSet(table) \ UserRows(table, user_id)) |-> table[r]], {})}

\* revoke_branch_permission, main.py 3343-3350: the first row found is
\* deleted.
revoke_plan(table, user_id, branch_id) ==
    {Plan(DeleteRow(table, r), {}) : r \in PermissionRows(table, user_id, branch_id)}

\* DELETE /api/admin/revoke-branch-permission/{user_id}/{branch_id}
revoke_branch_permission(actor, user_id, branch_id) ==
    /\ actor \in DOMAIN admins
    /\ LET gate == AdminGate(actor)
           op == "revoke_branch_permission"
       IN  IF gate.status # 200
           THEN /\ Reply(Rejected(op, gate.status, gate.detail))
                /\ UNCHANGED user_branch_permissions
           ELSE IF PermissionRows(user_branch_permissions, user_id, branch_id) = {}
           THEN /\ Reply(Rejected(op, 404, "Permission not found"))
                /\ UNCHANGED user_branch_permissions
           ELSE CommitOrFail(
                    revoke_plan(user_branch_permissions, user_id, branch_id),
                    op, Response(op, user_id, branch_id, "", 200, "Permission revoked"))
    /\ UNCHANGED <<admins, branches>>

\* grant_all_branches_full_access that adds the missing rows and leaves the
\* level of the rows it finds alone.
grant_all_plan_insert_only(table, user_id, active) ==
    {Plan(table, {Row(user_id, b, FULL_ACCESS) :
                    b \in {x \in active : PermissionRows(table, user_id, x) = {}}})}

\* grant_all_branches_full_access, main.py 3402-3415: for every active branch
\* the row found is set to full_access, or a full_access row is added.
grant_all_plan(table, user_id, active) ==
    LET found == {b \in active : PermissionRows(table, user_id, b) # {}}
        upgraded == [r \in BagToSet(table) |->
                        IF r.user_id = user_id /\ r.branch_id \in found
                        THEN [r EXCEPT !.permission_level = FULL_ACCESS] ELSE r]
        rows == {upgraded[r] : r \in BagToSet(table)}
        base == [q \in rows |->
                    BagCardinality([r \in {x \in BagToSet(table) : upgraded[x] = q}
                                    |-> table[r]])]
    IN  {Plan(base, {Row(user_id, b, FULL_ACCESS) : b \in active \ found})}

\* POST /api/admin/grant-all-branches-full-access/{user_id}
grant_all_branches_full_access(actor, user_id) ==
    /\ actor \in DOMAIN admins
    /\ LET gate == AdminGate(actor)
           op == "grant_all_branches_full_access"
       IN  IF gate.status # 200
           THEN /\ Reply(Rejected(op, gate.status, gate.detail))
                /\ UNCHANGED user_branch_permissions
           ELSE CommitOrFail(
                    grant_all_plan(user_branch_permissions, user_id, ActiveBranches),
                    op, Response(op, user_id, 0, FULL_ACCESS, 200, ""))
    /\ UNCHANGED <<admins, branches>>

\* limit_to_single_branch that keeps the level of the row it finds.
limit_plan_keep_level(table, user_id, branch_id) ==
    LET kept == [r \in {x \in BagToSet(table) :
                          ~(x.user_id = user_id /\ x.branch_id # branch_id)}
                 |-> table[r]]
    IN  IF PermissionRows(kept, user_id, branch_id) # {}
        THEN {Plan(kept, {})}
        ELSE {Plan(kept, {Row(user_id, branch_id, FULL_ACCESS)})}

\* limit_to_single_branch, main.py 3428-3442: the user's rows of other
\* branches are deleted; the row of the branch is set to full_access, or a
\* full_access row is added.
limit_plan(table, user_id, branch_id) ==
    LET kept == [r \in {x \in BagToSet(table) :
                          ~(x.user_id = user_id /\ x.branch_id # branch_id)}
                 |-> table[r]]
        perm == PermissionRows(kept, user_id, branch_id)
    IN  IF perm # {}
        THEN {Plan(UpdateRow(kept, r, FULL_ACCESS), {}) : r \in perm}
        ELSE {Plan(kept, {Row(user_id, branch_id, FULL_ACCESS)})}

\* POST /api/admin/limit-to-single-branch/{user_id}/{branch_id}
limit_to_single_branch(actor, user_id, branch_id) ==
    /\ actor \in DOMAIN admins
    /\ LET gate == AdminGate(actor)
           op == "limit_to_single_branch"
       IN  IF gate.status # 200
           THEN /\ Reply(Rejected(op, gate.status, gate.detail))
                /\ UNCHANGED user_branch_permissions
           ELSE CommitOrFail(
                    limit_plan(user_branch_permissions, user_id, branch_id),
                    op, Response(op, user_id, branch_id, FULL_ACCESS, 200, ""))
    /\ UNCHANGED <<admins, branches>>

\* POST /api/admin/users (main.py 3445-3494): a worker is given a full_access
\* row for every active branch, added without looking for existing rows.
create_user(actor, role, registered) ==
    /\ actor \in DOMAIN admins
    /\ LET gate == AdminGate(actor)
           op == "create_user"
           id == NextId(DOMAIN admins)
           plan == Plan(user_branch_permissions,
                        IF role = "worker"
                        THEN {Row(id, b, FULL_ACCESS) : b \in ActiveBranches}
                        ELSE {})
       IN  IF gate.status # 200
           THEN /\ Reply(Rejected(op, gate.status, gate.detail))
                /\ UNCHANGED <<admins, user_branch_permissions>>
           ELSE IF registered
           THEN /\ Reply(Rejected(op, 400, "Username or email already registered"))
                /\ UNCHANGED <<admins, user_branch_permissions>>
           ELSE /\ id <= MaxUsers
                /\ IF IntegrityHolds(plan)
                   THEN /\ WithinCap(Committed(plan))
                        /\ admins' = admins @@ (id :> [role |-> role, is_active |-> TRUE])
                        /\ user_branch_permissions' = Committed(plan)
                        /\ Reply(Response(op, id, 0, "", 200, ""))
                   ELSE /\ Reply(Rejected(op, 500, "IntegrityError"))
                        /\ UNCHANGED <<admins, user_branch_permissions>>
    /\ UNCHANGED branches

\* DELETE /api/admin/users/{user_id} with hard=False (main.py 3514-3533):
\* the user is deactivated, its permission rows stay.
delete_user(actor, user_id) ==
    /\ actor \in DOMAIN admins
    /\ LET gate == AdminGate(actor)
           op == "delete_user"
       IN  IF gate.status # 200
           THEN /\ Reply(Rejected(op, gate.status, gate.detail))
                /\ UNCHANGED admins
           ELSE IF user_id \notin DOMAIN admins
           THEN /\ Reply(Rejected(op, 404, "User not found"))
                /\ UNCHANGED admins
           ELSE /\ admins' = [admins EXCEPT ![user_id].is_active = FALSE]
                /\ Reply(Response(op, user_id, 0, "", 200, "User deactivated"))
    /\ UNCHANGED <<branches, user_branch_permissions>>

\* The handlers of branches test `hasattr(current_user, 'role') and
\* current_user.role != "admin"`.
BranchGate(actor) ==
    LET current_user == get_user(actor)
    IN  IF get_current_active_user(current_user).status # 200
        THEN get_current_active_user(current_user)
        ELSE IF current_user.role # "admin"
             THEN Deny(403, "Admin access required")
             ELSE Allow

\* POST /api/branches (main.py 1069-1085)
create_branch(actor, registered) ==
    /\ actor \in DOMAIN admins
    /\ LET gate == BranchGate(actor)
           op == "create_branch"
           id == NextId(DOMAIN branches)
       IN  IF gate.status # 200
           THEN /\ Reply(Rejected(op, gate.status, gate.detail))
                /\ UNCHANGED branches
           ELSE IF registered
           THEN /\ Reply(Rejected(op, 400, "Branch name already exists"))
                /\ UNCHANGED branches
           ELSE /\ id <= MaxBranches
                /\ branches' = branches @@ (id :> [is_active |-> TRUE])
                /\ Reply(Response(op, 0, id, "", 200, ""))
    /\ UNCHANGED <<admins, user_branch_permissions>>

\* PUT /api/branches/{branch_id} (main.py 1094-1112), the field is_active.
update_branch(actor, branch_id, is_active) ==
    /\ actor \in DOMAIN admins
    /\ LET gate == BranchGate(actor)
           op == "update_branch"
       IN  IF gate.status # 200
           THEN /\ Reply(Rejected(op, gate.status, gate.detail))
                /\ UNCHANGED branches
           ELSE IF branch_id \notin DOMAIN branches
           THEN /\ Reply(Rejected(op, 404, "Branch not found"))
                /\ UNCHANGED branches
           ELSE /\ branches' = [branches EXCEPT ![branch_id].is_active = is_active]
                /\ Reply(Response(op, 0, branch_id, "", 200, ""))
    /\ UNCHANGED <<admins, user_branch_permissions>>

\* A request whose dependencies are get_current_active_user and
\* check_branch_permission (auth.py 87-113).
CheckBranchPermission(actor, branch_id, required_permission) ==
    /\ actor \in DOMAIN admins
    /\ LET current_user == get_user(actor)
           op == "check_branch_permission"
           active == get_current_active_user(current_user)
           decision == check_branch_permission(branch_id, required_permission,
                                               current_user, user_branch_permissions)
       IN  IF active.status # 200
           THEN Reply(Rejected(op, active.status, active.detail))
           ELSE Reply(Response(op, actor, branch_id, required_permission,
                               decision.status, decision.detail))
    /\ UNCHANGED <<admins, branches, user_branch_permissions>>

(***************************************************************************)
(* The specification of the permission administration.                     *)
(***************************************************************************)
\* initialize_sample_data (main.py 343-536): branch 1 and the default admin.
Init ==
    /\ admins = (1 :> [role |-> "admin", is_active |-> TRUE])
    /\ branches = (1 :> [is_active |-> TRUE])
    /\ user_branch_permissions = EmptyBag
    /\ last = NoRequest
    /\ menu_items = {}
    /\ inventory = {}
    /\ daily_sales = {}
    /\ daily_expenses = {}
    /\ opening_balances = {}
    /\ sheet = EmptySheet
    /\ export = IdleExport
    /\ exported = NoExport
    /\ manual = IdleExport
    /\ orders = {}
    /\ order_items = {}
    /\ requests = NoRequests
    /\ password_reset_tokens = NoTokens
    /\ password_hash = NoPasswords
    /\ utcnow = 0
    /\ generated = 0
    /\ resets = NoResets

Next ==
    \/ \E a \in DOMAIN admins, u \in UserIds, b \in BranchIds,
          l \in PermissionLevel \cup {"owner"} :
           assign_branch_permission(a, u, b, l) /\ UNCHANGED <<dataVars, sheetVars, orderVars, txVars, resetVars>>
    \/ \E a \in DOMAIN admins, u \in UserIds, b \in BranchIds :
           revoke_branch_permission(a, u, b) /\ UNCHANGED <<dataVars, sheetVars, orderVars, txVars, resetVars>>
    \/ \E a \in DOMAIN admins, u \in UserIds :
           grant_all_branches_full_access(a, u) /\ UNCHANGED <<dataVars, sheetVars, orderVars, txVars, resetVars>>
    \/ \E a \in DOMAIN admins, u \in UserIds, b \in BranchIds :
           limit_to_single_branch(a, u, b) /\ UNCHANGED <<dataVars, sheetVars, orderVars, txVars, resetVars>>
    \/ \E a \in DOMAIN admins, r \in UserRole, registered \in BOOLEAN :
           create_user(a, r, registered) /\ UNCHANGED <<dataVars, sheetVars, orderVars, txVars, resetVars>>
    \/ \E a \in DOMAIN admins, u \in UserIds :
           delete_user(a, u) /\ UNCHANGED <<dataVars, sheetVars, orderVars, txVars, resetVars>>
    \/ \E a \in DOMAIN admins, registered \in BOOLEAN :
           create_branch(a, registered) /\ UNCHANGED <<dataVars, sheetVars, orderVars, txVars, resetVars>>
    \/ \E a \in DOMAIN admins, b \in BranchIds, active \in BOOLEAN :
           update_branch(a, b, active) /\ UNCHANGED <<dataVars, sheetVars, orderVars, txVars, resetVars>>
    \/ \E a \in DOMAIN admins, b \in BranchIds, l \in PermissionLevel :
           CheckBranchPermission(a, b, l) /\ UNCHANGED <<dataVars, sheetVars, orderVars, txVars, resetVars>>

Spec == Init /\ [][Next]_vars

(***************************************************************************)
(* Properties of the permission evaluator and of the permission table.     *)
(***************************************************************************)
Workers == {u \in DOMAIN admins : admins[u].role = "worker"}

Administrators == {u \in DOMAIN admins : admins[u].role = "admin"}

\* The decision of check_branch_permission for user u in the current state.
Decision(u, branch_id, required_permission) ==
    check_branch_permission(branch_id, required_permission, get_user(u),
                            user_branch_permissions)

\* The last request was a check_branch_permission that reached a decision.
Checked(required_permission) ==
    /\ last.op = "check_branch_permission"
    /\ last.user_id \in DOMAIN admins
    /\ last.permission_level = required_permission

\* C1: for every worker w and branch b, check_branch_permission(w, b,
\* view_only) allows exactly when user_branch_permissions holds a row of
\* (w, b), whatever its level; with no row the denial is
\* 'No access to this branch'.
C1_ViewOnlyAllowsIffRow ==
    /\ \A w \in Workers, b \in BranchIds :
          LET d == Decision(w, b, VIEW_ONLY)
              rows == PermissionRows(user_branch_permissions, w, b)
          IN  /\ (d.status = 200) <=> (rows # {})
              /\ (rows = {}) => d = Deny(403, "No access to this branch")
    /\ (Checked(VIEW_ONLY) /\ last.user_id \in Workers) =>
          LET rows == PermissionRows(user_branch_permissions,
                                     last.user_id, last.branch_id)
          IN  /\ (last.status = 200) <=> (rows # {})
              /\ (rows = {}) => /\ last.status = 403
                                /\ last.detail = "No access to this branch"

\* C1, its case: a worker whose only row of the branch is view_only asked
\* for view_only and was allowed.
C1_Witness ==
    /\ Checked(VIEW_ONLY)
    /\ last.user_id \in Workers
    /\ last.status = 200
    /\ \E r \in PermissionRows(user_branch_permissions, last.user_id, last.branch_id) :
          r.permission_level = VIEW_ONLY

\* C2: for every worker w and branch b, check_branch_permission(w, b,
\* full_access) allows exactly when the row of (w, b) has level full_access;
\* a view_only row is denied with 'Insufficient permissions for this branch',
\* no row with 'No access to this branch'.
C2_FullAccessAllowsIffFullRow ==
    /\ \A w \in Workers, b \in BranchIds :
          LET d == Decision(w, b, FULL_ACCESS)
              rows == PermissionRows(user_branch_permissions, w, b)
          IN  /\ (d.status = 200) <=>
                    (\E r \in rows : r.permission_level = FULL_ACCESS)
              /\ (\E r \in rows : r.permission_level = VIEW_ONLY) =>
                    d = Deny(403, "Insufficient permissions for this branch")
              /\ (rows = {}) => d = Deny(403, "No access to this branch")
    /\ (Checked(FULL_ACCESS) /\ last.user_id \in Workers) =>
          LET rows == PermissionRows(user_branch_permissions,
                                     last.user_id, last.branch_id)
          IN  /\ (last.status = 200) <=>
                    (\E r \in rows : r.permission_level = FULL_ACCESS)
              /\ (\E r \in rows : r.permission_level = VIEW_ONLY) =>
                    /\ last.status = 403
                    /\ last.detail = "Insufficient permissions for this branch"
              /\ (rows = {}) => /\ last.status = 403
                                /\ last.detail = "No access to this branch"

\* C2, its case: a worker with a view_only row asked for full_access and was
\* denied with 'Insufficient permissions for this branch'.
C2_Witness ==
    /\ Checked(FULL_ACCESS)
    /\ last.user_id \in Workers
    /\ last.status = 403
    /\ last.detail = "Insufficient permissions for this branch"
    /\ \E r \in PermissionRows(user_branch_permissions, last.user_id, last.branch_id) :
          r.permission_level = VIEW_ONLY

\* C3: for every user of role admin and every branch b,
\* check_branch_permission(u, b, full_access) allows, also when
\* user_branch_permissions holds no row of u.
C3_AdminAlwaysAllowed ==
    /\ \A u \in Administrators, b \in BranchIds :
          Decision(u, b, FULL_ACCESS) = Allow
    /\ (Checked(FULL_ACCESS) /\ last.user_id \in Administrators) =>
          last.status = 200

\* C3, its case: an admin without any permission row asked for full_access
\* on a branch and was allowed.
C3_Witness ==
    /\ Checked(FULL_ACCESS)
    /\ last.user_id \in Administrators
    /\ UserRows(user_branch_permissions, last.user_id) = {}
    /\ last.status = 200

\* C5: in every state reached through assign_branch_permission,
\* revoke_branch_permission, grant_all_branches_full_access,
\* limit_to_single_branch and create_user, user_branch_permissions holds at
\* most one row for each pair (user_id, branch_id).
C5_AtMostOneRowPerPair ==
    \A u \in UserIds, b \in BranchIds :
        RowCount(user_branch_permissions, u, b) <= 1

\* C5, its case: create_user met rows that an earlier
\* assign_branch_permission had stored under the id of the new user; the
\* commit was refused and the table kept one row for the pair.
C5_Witness ==
    /\ last.op = "create_user"
    /\ last.status = 500
    /\ \E u \in UserIds \ DOMAIN admins, b \in BranchIds :
          RowCount(user_branch_permissions, u, b) = 1

\* The last request, or the request of this step when primed.
Succeeded(r, op) == r.op = op /\ r.status = 200

\* Every row outside `touched` is in table2 as often as in table1.
SameRowsExcept(table1, table2, touched(_)) ==
    \A r \in BagToSet(table1) \cup BagToSet(table2) :
        ~touched(r) => CopiesIn(r, table1) = CopiesIn(r, table2)

\* C8: for every worker u and branch b, a successful
\* assign_branch_permission(u, b, full_access) followed by
\* revoke_branch_permission(u, b) by an admin: the revoke succeeds, the table
\* holds no row of (u, b), check_branch_permission(u, b, view_only) denies,
\* and the rows of every other pair are as they were before the revoke.
C8_GrantThenRevoke ==
    [][ \A u \in Workers, b \in BranchIds :
          (/\ JustGranted(u, b) = FULL_ACCESS
           /\ \E a \in DOMAIN admins :
                 /\ AdminGate(a).status = 200
                 /\ revoke_branch_permission(a, u, b))
          => /\ Succeeded(last', "revoke_branch_permission")
             /\ PermissionRows(user_branch_permissions', u, b) = {}
             /\ check_branch_permission(b, VIEW_ONLY, get_user(u),
                                        user_branch_permissions')
                  = Deny(403, "No access to this branch")
             /\ LET touched(r) == r.user_id = u /\ r.branch_id = b
                IN  SameRowsExcept(user_branch_permissions,
                                   user_branch_permissions', touched)
      ]_vars

\* C8, its case: the row a worker was just granted at full_access has been
\* revoked while the table holds a row of another pair.
C8_Witness ==
    /\ Succeeded(last, "revoke_branch_permission")
    /\ last.granted = FULL_ACCESS
    /\ last.user_id \in Workers
    /\ PermissionRows(user_branch_permissions, last.user_id, last.branch_id) = {}
    /\ UserRows(user_branch_permissions, last.user_id) # {}

\* C9: after a successful assign_branch_permission(u, b, level) the table
\* holds exactly one row of (u, b) and its level is the level of that last
\* assign; so view_only followed by full_access leaves one full_access row.
C9_RegrantUpdatesInPlace ==
    Succeeded(last, "assign_branch_permission") =>
        /\ RowCount(user_branch_permissions, last.user_id, last.branch_id) = 1
        /\ PermissionRows(user_branch_permissions, last.user_id, last.branch_id)
             = {Row(last.user_id, last.branch_id, last.permission_level)}

\* C9, its case: assign_branch_permission(u, b, view_only) immediately
\* followed by assign_branch_permission(u, b, full_access).
C9_Witness ==
    /\ Succeeded(last, "assign_branch_permission")
    /\ last.granted = VIEW_ONLY
    /\ last.permission_level = FULL_ACCESS
    /\ RowCount(user_branch_permissions, last.user_id, last.branch_id) = 1

\* What limit_to_single_branch(u, b1) leaves, for the users in `checked`:
\* one row of u, for b1 at full_access; view_only denied on every other
\* branch and full_access allowed on b1; other users' rows as before.
LimitedToSingleBranch(checked) ==
        Succeeded(last', "limit_to_single_branch") =>
          LET u == last'.user_id
              b1 == last'.branch_id
              touched(r) == r.user_id = u
          IN  /\ UserRowCount(user_branch_permissions', u) = 1
              /\ UserRows(user_branch_permissions', u) = {Row(u, b1, FULL_ACCESS)}
              /\ u \in checked =>
                    /\ \A b2 \in BranchIds \ {b1} :
                          check_branch_permission(b2, VIEW_ONLY, get_user(u),
                                                  user_branch_permissions').status # 200
                    /\ check_branch_permission(b1, FULL_ACCESS, get_user(u),
                                               user_branch_permissions') = Allow
              /\ SameRowsExcept(user_branch_permissions,
                                user_branch_permissions', touched)

\* C10 as stated, for every user u: after limit_to_single_branch(u, b1) the
\* check (u, b2, view_only) denies for every b2 # b1. An admin u is allowed
\* on every branch whatever its rows.
C10_AnyUserLimited == [][LimitedToSingleBranch(DOMAIN admins)]_vars

\* C10 for workers: after limit_to_single_branch(u, b1), from any table, u
\* has exactly one row, for b1 at full_access; for a worker u the check
\* (u, b2, view_only) denies for every b2 # b1 and (u, b1, full_access)
\* allows; rows of other users are unchanged.
C10_WorkerLimited == [][LimitedToSingleBranch(Workers)]_vars

\* C10, its case: a worker holding a row of another branch has been limited
\* to b1 while another user holds a row.
C10_Witness ==
    /\ Succeeded(last, "limit_to_single_branch")
    /\ last.user_id \in Workers
    /\ UserRows(user_branch_permissions, last.user_id)
         = {Row(last.user_id, last.branch_id, FULL_ACCESS)}
    /\ \E r \in BagToSet(user_branch_permissions) : r.user_id # last.user_id

(***************************************************************************)
(* main.py: the handlers of branch-scoped resources. Every request is for  *)
(* one day, the day the defaults of the date parameters select.            *)
(***************************************************************************)
Amounts == 1..MaxAmount

RowIds == 1..MaxRows

Ids(rows) == {r.id : r \in rows}

OfBranch(rows, branch_id) == {r \in rows : r.branch_id = branch_id}

\* A row of a response body.
BodyRow(table, branch_id, id, amount) ==
    [table |-> table, branch_id |-> branch_id, id |-> id, amount |-> amount]

Body(table, rows) == {BodyRow(table, r.branch_id, r.id, 1) : r \in rows}

Answer(op, actor, branch_id, body) ==
    [Response(op, actor, branch_id, "", 200, "") EXCEPT !.body = body]

\* The test of the writes without the comparison of the level.
WorkerFullAccess_any_level(current_user, branch_id) ==
    IF current_user.role # "worker"
    THEN Allow
    ELSE IF PermissionRows(user_branch_permissions, current_user.id, branch_id) = {}
         THEN Deny(403, "No access to this branch")
         ELSE Allow

\* The test the handlers of writes repeat in line for
\* `current_user.role == "worker"`: a row of (user, branch) at full_access.
WorkerFullAccess(current_user, branch_id) ==
    IF current_user.role # "worker"
    THEN Allow
    ELSE LET perm == PermissionRows(user_branch_permissions, current_user.id, branch_id)
         IN  IF perm = {}
             THEN Deny(403, "No access to this branch")
             ELSE IF (CHOOSE r \in perm : TRUE).permission_level # "full_access"
                  THEN Deny(403, "Insufficient permissions for this branch")
                  ELSE Allow

\* The test the handlers of reads repeat in line: any row of (user, branch).
WorkerAnyAccess(current_user, branch_id) ==
    IF current_user.role # "worker"
    THEN Allow
    ELSE IF PermissionRows(user_branch_permissions, current_user.id, branch_id) = {}
         THEN Deny(403, "No access to this branch")
         ELSE Allow

\* POST /api/branches/{branch_id}/menu (main.py 1982-2075): the handler
\* depends on get_current_active_user and looks at no permission row.
create_branch_menu_item(actor, branch_id) ==
    /\ actor \in DOMAIN admins
    /\ LET current_user == get_user(actor)
           active == get_current_active_user(current_user)
           op == "create_branch_menu_item"
           id == NextId(Ids(menu_items))
       IN  IF active.status # 200
           THEN /\ Reply(Rejected(op, active.status, active.detail))
                /\ UNCHANGED menu_items
           ELSE IF branch_id \notin DOMAIN branches
           THEN /\ Reply(Rejected(op, 404, "Branch not found"))
                /\ UNCHANGED menu_items
           ELSE /\ id <= MaxRows
                /\ menu_items' = menu_items \cup {[id |-> id, branch_id |-> branch_id]}
                /\ Reply(Response(op, actor, branch_id, "", 200, ""))
    /\ UNCHANGED <<inventory, daily_sales, daily_expenses, opening_balances>>

\* DELETE /api/branches/{branch_id}/menu/{item_id} (main.py 2156-2168)
delete_branch_menu_item(actor, branch_id, item_id) ==
    /\ actor \in DOMAIN admins
    /\ LET current_user == get_user(actor)
           active == get_current_active_user(current_user)
           op == "delete_branch_menu_item"
           db_item == {r \in menu_items : r.id = item_id /\ r.branch_id = branch_id}
       IN  IF active.status # 200
           THEN /\ Reply(Rejected(op, active.status, active.detail))
                /\ UNCHANGED menu_items
           ELSE IF db_item = {}
           THEN /\ Reply(Rejected(op, 404, "Menu item not found for this branch"))
                /\ UNCHANGED menu_items
           ELSE /\ menu_items' = menu_items \ db_item
                /\ Reply(Response(op, actor, branch_id, "", 204, ""))
    /\ UNCHANGED <<inventory, daily_sales, daily_expenses, opening_balances>>

\* POST /api/inventory (main.py 2731-2741)
create_inventory_item(actor, branch_id, current_stock) ==
    /\ actor \in DOMAIN admins
    /\ LET current_user == get_user(actor)
           active == get_current_active_user(current_user)
           op == "create_inventory_item"
           id == NextId(Ids(inventory))
       IN  IF active.status # 200
           THEN /\ Reply(Rejected(op, active.status, active.detail))
                /\ UNCHANGED inventory
           ELSE /\ id <= MaxRows
                /\ inventory' = inventory \cup
                      {[id |-> id, branch_id |-> branch_id,
                        current_stock |-> current_stock]}
                /\ Reply(Response(op, actor, branch_id, "", 200, ""))
    /\ UNCHANGED <<menu_items, daily_sales, daily_expenses, opening_balances>>

\* PATCH /api/inventory/{item_id} (main.py 2743-2758), the field
\* current_stock.
update_inventory(actor, item_id, current_stock) ==
    /\ actor \in DOMAIN admins
    /\ LET current_user == get_user(actor)
           active == get_current_active_user(current_user)
           op == "update_inventory"
           db_item == {r \in inventory : r.id = item_id}
       IN  IF active.status # 200
           THEN /\ Reply(Rejected(op, active.status, active.detail))
                /\ UNCHANGED inventory
           ELSE IF db_item = {}
           THEN /\ Reply(Rejected(op, 404, "Inventory item not found"))
                /\ UNCHANGED inventory
           ELSE /\ inventory' = (inventory \ db_item) \cup
                      {[r EXCEPT !.current_stock = current_stock] : r \in db_item}
                /\ Reply(Response(op, actor,
                                  (CHOOSE r \in db_item : TRUE).branch_id, "", 200, ""))
    /\ UNCHANGED <<menu_items, daily_sales, daily_expenses, opening_balances>>

\* POST /api/expenses (main.py 1194-1231)
create_expense(actor, branch_id) ==
    /\ actor \in DOMAIN admins
    /\ LET current_user == get_user(actor)
           active == get_current_active_user(current_user)
           perm == WorkerFullAccess(current_user, branch_id)
           op == "create_expense"
           id == NextId(Ids(daily_expenses))
       IN  IF active.status # 200
           THEN /\ Reply(Rejected(op, active.status, active.detail))
                /\ UNCHANGED daily_expenses
           ELSE IF perm.status # 200
           THEN /\ Reply(Rejected(op, perm.status, perm.detail))
                /\ UNCHANGED daily_expenses
           ELSE IF branch_id \notin DOMAIN branches
           THEN /\ Reply(Rejected(op, 404, "Branch not found"))
                /\ UNCHANGED daily_expenses
           ELSE /\ id <= MaxRows
                /\ daily_expenses' = daily_expenses \cup
                      {[id |-> id, branch_id |-> branch_id, date |-> Today]}
                /\ Reply(Response(op, actor, branch_id, "", 200, ""))
    /\ UNCHANGED <<menu_items, inventory, daily_sales, opening_balances>>

\* POST /api/sales (main.py 2478-2529): the menu item is looked up by its id
\* alone.
record_sale(actor, branch_id, menu_item_id) ==
    /\ actor \in DOMAIN admins
    /\ LET current_user == get_user(actor)
           active == get_current_active_user(current_user)
           perm == WorkerFullAccess(current_user, branch_id)
           op == "record_sale"
           id == NextId(Ids(daily_sales))
       IN  IF active.status # 200
           THEN /\ Reply(Rejected(op, active.status, active.detail))
                /\ UNCHANGED daily_sales
           ELSE IF perm.status # 200
           THEN /\ Reply(Rejected(op, perm.status, perm.detail))
                /\ UNCHANGED daily_sales
           ELSE IF menu_item_id \notin Ids(menu_items)
           THEN /\ Reply(Rejected(op, 404, "Menu item not found"))
                /\ UNCHANGED daily_sales
           ELSE /\ id <= MaxRows
                /\ daily_sales' = daily_sales \cup
                      {[id |-> id, branch_id |-> branch_id,
                        menu_item_id |-> menu_item_id, date |-> Today]}
                /\ Reply(Response(op, actor, branch_id, "", 200, ""))
    /\ UNCHANGED <<menu_items, inventory, daily_expenses, opening_balances>>

\* POST /api/branches/{branch_id}/opening-balance (main.py 2211-2243): one
\* detail for a missing row and for a view_only row.
create_or_update_opening_balance(actor, branch_id, amount) ==
    /\ actor \in DOMAIN admins
    /\ LET current_user == get_user(actor)
           active == get_current_active_user(current_user)
           perm == WorkerFullAccess(current_user, branch_id)
           op == "create_or_update_opening_balance"
       IN  IF active.status # 200
           THEN /\ Reply(Rejected(op, active.status, active.detail))
                /\ UNCHANGED opening_balances
           ELSE IF perm.status # 200
           THEN /\ Reply(Rejected(op, 403, "Insufficient permissions for this branch"))
                /\ UNCHANGED opening_balances
           ELSE /\ opening_balances' =
                      {r \in opening_balances : r.branch_id # branch_id}
                      \cup {[branch_id |-> branch_id, amount |-> amount]}
                /\ Reply(Response(op, actor, branch_id, "", 200, ""))
    /\ UNCHANGED <<menu_items, inventory, daily_sales, daily_expenses>>

\* The handler of a read: the gate, then the body.
Read(op, actor, branch_id, gate, body) ==
    /\ actor \in DOMAIN admins
    /\ LET active == get_current_active_user(get_user(actor))
       IN  IF active.status # 200
           THEN Reply(Rejected(op, active.status, active.detail))
           ELSE IF gate.status # 200
           THEN Reply(Rejected(op, gate.status, gate.detail))
           ELSE Reply(Answer(op, actor, branch_id, body))
    /\ UNCHANGED dataVars

\* The branches of the rows of user_id: user_branch_ids.
user_branch_ids(user_id) ==
    {r.branch_id : r \in UserRows(user_branch_permissions, user_id)}

\* GET /api/expenses (main.py 1142-1192)
get_expenses(actor, branch_id) ==
    LET current_user == get_user(actor)
        worker == current_user.role = "worker"
        gate == IF ~worker THEN Allow
                ELSE IF branch_id # NoBranch
                THEN IF branch_id \notin user_branch_ids(actor)
                     THEN Deny(403, "No access to this branch") ELSE Allow
                ELSE IF user_branch_ids(actor) = {}
                     THEN Deny(403, "No branch permissions assigned") ELSE Allow
        rows == IF branch_id # NoBranch
                THEN OfBranch(daily_expenses, branch_id)
                ELSE IF worker
                THEN {r \in daily_expenses : r.branch_id \in user_branch_ids(actor)}
                ELSE daily_expenses
    IN  Read("get_expenses", actor, branch_id, gate, Body("daily_expenses", rows))

\* GET /api/sales (main.py 2393-2433)
get_sales_enhanced(actor, branch_id) ==
    LET current_user == get_user(actor)
        worker == current_user.role = "worker"
        gate == IF ~worker THEN Allow
                ELSE IF user_branch_ids(actor) = {}
                THEN Deny(403, "No branch access assigned")
                ELSE IF branch_id # NoBranch /\ branch_id \notin user_branch_ids(actor)
                THEN Deny(403, "You do not have permission for this branch")
                ELSE Allow
        rows == IF branch_id # NoBranch
                THEN OfBranch(daily_sales, branch_id)
                ELSE IF worker
                THEN {r \in daily_sales : r.branch_id \in user_branch_ids(actor)}
                ELSE daily_sales
    IN  Read("get_sales_enhanced", actor, branch_id, gate, Body("daily_sales", rows))

\* GET /api/worker/sales (main.py 3096-3104): for a worker the handler
\* evaluates current_user.branch_id to call get_sales_enhanced; the class
\* Admin (models.py 34-51) has no attribute branch_id, so the evaluation
\* raises AttributeError, which no handler catches.
get_worker_sales(actor) ==
    /\ actor \in DOMAIN admins
    /\ LET current_user == get_user(actor)
           active == get_current_active_user(current_user)
           op == "get_worker_sales"
       IN  IF active.status # 200
           THEN Reply(Rejected(op, active.status, active.detail))
           ELSE IF current_user.role # "worker"
           THEN Reply(Rejected(op, 403, "Worker access required"))
           ELSE Reply(Rejected(op, 500, "AttributeError"))
    /\ UNCHANGED dataVars

\* GET /api/branches/{branch_id}/daily-sales (main.py 2584-2615)
get_branch_daily_sales(actor, branch_id) ==
    Read("get_branch_daily_sales", actor, branch_id,
         WorkerAnyAccess(get_user(actor), branch_id),
         Body("daily_sales", OfBranch(daily_sales, branch_id)))

\* The amount of the opening balance of the branch, 0.0 without a row.
opening_balance(branch_id) ==
    LET rows == OfBranch(opening_balances, branch_id)
    IN  IF rows = {} THEN 0 ELSE (CHOOSE r \in rows : TRUE).amount

\* GET /api/branches/{branch_id}/opening-balance (main.py 2170-2209)
get_opening_balance_for_date(actor, branch_id) ==
    Read("get_opening_balance_for_date", actor, branch_id,
         WorkerAnyAccess(get_user(actor), branch_id),
         {BodyRow("opening_balances", branch_id, 0, opening_balance(branch_id))})

\* GET /api/branches/{branch_id}/daily-balance (main.py 2247-2293): the
\* handler depends on get_current_active_user and looks at no permission row.
get_daily_balance_summary(actor, branch_id) ==
    LET total_revenue == Cardinality(OfBranch(daily_sales, branch_id))
        total_expenses == Cardinality(OfBranch(daily_expenses, branch_id))
    IN  Read("get_daily_balance_summary", actor, branch_id, Allow,
             {BodyRow("opening_balance", branch_id, 0, opening_balance(branch_id)),
              BodyRow("total_revenue", branch_id, 0, total_revenue),
              BodyRow("total_expenses", branch_id, 0, total_expenses),
              BodyRow("calculated_balance", branch_id, 0,
                      opening_balance(branch_id) + total_revenue - total_expenses)})

(***************************************************************************)
(* The specification of the branch-scoped resources: the users, the        *)
(* branches and the permission table are as an administrator left them.    *)
(***************************************************************************)
\* The tables assign_branch_permission can build for the workers: at most
\* one row for a pair.
PermissionTables ==
    LET rows == {Row(u, b, l) : u \in UserIds \ {1}, b \in BranchIds,
                                l \in PermissionLevel}
    IN  {SetToBag(t) : t \in {x \in SUBSET rows :
            /\ Cardinality(x) <= MaxPermissions
            /\ \A r1, r2 \in x :
                  (r1.user_id = r2.user_id /\ r1.branch_id = r2.branch_id)
                  => r1 = r2}}

InitData ==
    /\ admins = [u \in UserIds |->
                    [role |-> IF u = 1 THEN "admin" ELSE "worker",
                     is_active |-> TRUE]]
    /\ branches = [b \in BranchIds |-> [is_active |-> TRUE]]
    /\ user_branch_permissions \in PermissionTables
    /\ last = NoRequest
    /\ menu_items = {}
    /\ inventory = {}
    /\ daily_sales = {}
    /\ daily_expenses = {}
    /\ opening_balances = {}
    /\ sheet = EmptySheet
    /\ export = IdleExport
    /\ exported = NoExport
    /\ manual = IdleExport
    /\ orders = {}
    /\ order_items = {}
    /\ requests = NoRequests
    /\ password_reset_tokens = NoTokens
    /\ password_hash = NoPasswords
    /\ utcnow = 0
    /\ generated = 0
    /\ resets = NoResets

NextData ==
    \/ \E a \in UserIds, b \in BranchIds :
           create_branch_menu_item(a, b) /\ UNCHANGED <<permVars, sheetVars, orderVars, txVars, resetVars>>
    \/ \E a \in UserIds, b \in BranchIds, i \in RowIds :
           delete_branch_menu_item(a, b, i) /\ UNCHANGED <<permVars, sheetVars, orderVars, txVars, resetVars>>
    \/ \E a \in UserIds, b \in BranchIds, s \in 0..MaxAmount :
           create_inventory_item(a, b, s) /\ UNCHANGED <<permVars, sheetVars, orderVars, txVars, resetVars>>
    \/ \E a \in UserIds, i \in RowIds, s \in 0..MaxAmount :
           update_inventory(a, i, s) /\ UNCHANGED <<permVars, sheetVars, orderVars, txVars, resetVars>>
    \/ \E a \in UserIds, b \in BranchIds :
           create_expense(a, b) /\ UNCHANGED <<permVars, sheetVars, orderVars, txVars, resetVars>>
    \/ \E a \in UserIds, b \in BranchIds, i \in RowIds :
           record_sale(a, b, i) /\ UNCHANGED <<permVars, sheetVars, orderVars, txVars, resetVars>>
    \/ \E a \in UserIds, b \in BranchIds, x \in Amounts :
           create_or_update_opening_balance(a, b, x) /\ UNCHANGED <<permVars, sheetVars, orderVars, txVars, resetVars>>
    \/ \E a \in UserIds, b \in BranchIds \cup {NoBranch} :
           get_expenses(a, b) /\ UNCHANGED <<permVars, sheetVars, orderVars, txVars, resetVars>>
    \/ \E a \in UserIds, b \in BranchIds \cup {NoBranch} :
           get_sales_enhanced(a, b) /\ UNCHANGED <<permVars, sheetVars, orderVars, txVars, resetVars>>
    \/ \E a \in UserIds :
           get_worker_sales(a) /\ UNCHANGED <<permVars, sheetVars, orderVars, txVars, resetVars>>
    \/ \E a \in UserIds, b \in BranchIds :
           get_branch_daily_sales(a, b) /\ UNCHANGED <<permVars, sheetVars, orderVars, txVars, resetVars>>
    \/ \E a \in UserIds, b \in BranchIds :
           get_opening_balance_for_date(a, b) /\ UNCHANGED <<permVars, sheetVars, orderVars, txVars, resetVars>>
    \/ \E a \in UserIds, b \in BranchIds :
           get_daily_balance_summary(a, b) /\ UNCHANGED <<permVars, sheetVars, orderVars, txVars, resetVars>>

SpecData == InitData /\ [][NextData]_vars

(***************************************************************************)
(* Properties of the handlers of branch-scoped resources.                  *)
(***************************************************************************)
\* The rows of the branch in every table of branch-scoped resources.
BranchData(branch_id) ==
    <<OfBranch(menu_items, branch_id), OfBranch(inventory, branch_id),
      OfBranch(daily_sales, branch_id), OfBranch(daily_expenses, branch_id),
      OfBranch(opening_balances, branch_id)>>

HoldsFullAccess(user_id, branch_id) ==
    \E r \in PermissionRows(user_branch_permissions, user_id, branch_id) :
        r.permission_level = FULL_ACCESS

ReadOps ==
    {"get_expenses", "get_sales_enhanced", "get_branch_daily_sales",
     "get_opening_balance_for_date", "get_daily_balance_summary"}

\* C6: a request of a worker changes the data of a branch (its menu items,
\* inventory items, daily sales, daily expenses, opening balance) only if
\* the worker holds a full_access row for that branch.
C6_WorkerWritesNeedFullAccess ==
    [][ \A b \in BranchIds :
          (BranchData(b)' # BranchData(b) /\ last'.user_id \in Workers)
          => HoldsFullAccess(last'.user_id, b)
      ]_vars

\* C7: a read answered to a worker carries a row or a non-zero figure only
\* of branches for which the worker holds a permission row.
C7_WorkerReadsNeedRow ==
    (last.op \in ReadOps /\ last.status = 200 /\ last.user_id \in Workers) =>
        \A x \in last.body :
            x.amount # 0 =>
            PermissionRows(user_branch_permissions, last.user_id, x.branch_id) # {}

(***************************************************************************)
(* sheets_exporter.py. A tab is the list of rows get_all_values returns,   *)
(* every cell the string the spreadsheet displays.                         *)
(***************************************************************************)
\* target_date.isoformat()
isoformat(d) == "2024-01-0" \o ToString(d)

\* headers_sales and headers_exp, the columns date and branch_id and one
\* column more.
headers(kind) ==
    IF kind = "Sales"
    THEN <<"date", "branch_id", "menu_item_id">>
    ELSE <<"date", "branch_id", "category">>

RECURSIVE Ascending(_)
\* The elements of a set of numbers, smallest first.
Ascending(S) ==
    IF S = {} THEN <<>>
    ELSE LET m == CHOOSE x \in S : \A y \in S : x <= y
         IN  <<m>> \o Ascending(S \ {m})

RECURSIVE RowsById(_)
\* query.all(): the rows in the order of their ids.
RowsById(rows) ==
    IF rows = {} THEN <<>>
    ELSE LET r == CHOOSE x \in rows : \A y \in rows : x.id <= y.id
         IN  <<r>> \o RowsById(rows \ {r})

\* sales_q (sheets_exporter.py 127-152): the sales of the branch on the date,
\* inner-joined with branches and menu_items. A number entered with
\* USER_ENTERED is read back as its decimal string.
sales_rows(branch_id, target_date) ==
    LET found == {r \in daily_sales :
                    /\ r.date = target_date
                    /\ r.branch_id = branch_id
                    /\ r.branch_id \in DOMAIN branches
                    /\ r.menu_item_id \in Ids(menu_items)}
        q == RowsById(found)
    IN  [i \in DOMAIN q |->
            <<isoformat(target_date), ToString(q[i].branch_id),
              ToString(q[i].menu_item_id)>>]

\* expenses_q (sheets_exporter.py 159-176)
expense_rows(branch_id, target_date) ==
    LET found == {e \in daily_expenses :
                    e.date = target_date /\ e.branch_id = branch_id}
        q == RowsById(found)
    IN  [i \in DOMAIN q |->
            <<isoformat(target_date), ToString(q[i].branch_id), "supplies">>]

new_rows(tab, target_date) ==
    IF tab.kind = "Sales"
    THEN sales_rows(tab.branch_id, target_date)
    ELSE expense_rows(tab.branch_id, target_date)

\* _replace_data_for_date without the filter of lines 62-66: the rows are
\* appended to what the tab held.
replace_data_for_date_append(all_data, target_date_iso, rows, hdr) ==
    LET with_header ==
            IF all_data = <<>> \/ all_data[1] # hdr
            THEN <<hdr>> \o (IF Len(all_data) > 1 THEN Tail(all_data) ELSE <<>>)
            ELSE all_data
    IN  with_header \o rows

\* _replace_data_for_date, lines 53-69: what the function has in
\* filtered_rows when it reaches ws.clear().
replace_data_for_date(all_data, target_date_iso, rows, hdr) ==
    LET with_header ==
            IF all_data = <<>> \/ all_data[1] # hdr
            THEN <<hdr>> \o (IF Len(all_data) > 1 THEN Tail(all_data) ELSE <<>>)
            ELSE all_data
        keep(row) == Len(row) > 0 /\ row[1] # target_date_iso
    IN  <<with_header[1]>> \o SelectSeq(Tail(with_header), keep) \o rows

\* export_day, lines 112-124: the branches to export and their tabs, the
\* Sales tab of a branch before its Expenses tab.
branches_to_export(branch_id) ==
    IF branch_id # NoBranch
    THEN IF branch_id \in DOMAIN branches THEN {branch_id} ELSE {}
    ELSE DOMAIN branches

RECURSIVE TabsOf(_)
TabsOf(bs) ==
    IF bs = <<>> THEN <<>>
    ELSE <<[kind |-> "Sales", branch_id |-> Head(bs)],
           [kind |-> "Expenses", branch_id |-> Head(bs)]>> \o TabsOf(Tail(bs))

\* The invocations of export_day: "job" is the call of export_yesterday_job
\* (main.py 279-288) or of run_export_to_sheets, "manual" the call of
\* manual_export_to_sheets (main.py 321-335). Each has its own locals.
Invocations == {"job", "manual"}

Locals(self) == IF self = "job" THEN export ELSE manual

Becomes(self, e) ==
    IF self = "job"
    THEN export' = e /\ UNCHANGED manual
    ELSE manual' = e /\ UNCHANGED export

\* export_day(db, target_date, branch_id) up to its first tab; `opened` is
\* the outcome of _open_sheet(), which raises RuntimeError without the
\* credentials or the spreadsheet id. `before` is history: the spreadsheet
\* when the call began.
export_day(self, target_date, branch_id, opened) ==
    /\ Locals(self).pc \in {"idle", "returned", "raised"}
    /\ Locals(self).calls < MaxCalls
    /\ ~opened => Locals(self).faults < MaxFaults
    /\ exported' = IF self # "job" THEN exported
                   ELSE IF export.pc = "returned"
                   THEN [returned |-> TRUE, target_date |-> export.target_date,
                         branch_id |-> export.branch_id, sheet |-> sheet]
                   ELSE NoExport
    /\ LET todo == TabsOf(Ascending(branches_to_export(branch_id)))
       IN  Becomes(self, [IdleExport EXCEPT
                        !.pc = IF ~opened THEN "raised"
                               ELSE IF todo = <<>> THEN "returned" ELSE "read",
                        !.target_date = target_date,
                        !.branch_id = branch_id,
                        !.todo = IF opened THEN todo ELSE <<>>,
                        !.before = sheet,
                        !.calls = Locals(self).calls + 1,
                        !.faults = Locals(self).faults + (IF opened THEN 0 ELSE 1)])
    /\ UNCHANGED sheet

\* _get_or_create_ws and ws.get_all_values() (lines 47-51, 155, 179): an
\* exception of get_all_values is caught and the tab is taken to be empty.
get_all_values(self, outcome) ==
    /\ Locals(self).pc = "read"
    /\ outcome # "ok" => Locals(self).faults < MaxFaults
    /\ LET e == Locals(self)
           tab == Head(e.todo)
           all_data == IF outcome = "ok" THEN sheet[tab] ELSE <<>>
       IN  Becomes(self,
             IF outcome = "raise"
             THEN [e EXCEPT !.pc = "raised", !.faults = @ + 1,
                            !.remote = <<"get_all_values">>]
             ELSE [e EXCEPT
                     !.pc = "clear",
                     !.remote = <<"get_all_values">>,
                     !.faults = @ + (IF outcome = "ok" THEN 0 ELSE 1),
                     !.swallowed = @ \/ outcome = "except",
                     !.filtered_rows =
                         replace_data_for_date(all_data,
                             isoformat(e.target_date),
                             new_rows(tab, e.target_date),
                             headers(tab.kind))])
    /\ UNCHANGED <<sheet, exported>>

\* ws.clear() (line 73)
clear(self, ok) ==
    /\ Locals(self).pc = "clear"
    /\ ~ok => Locals(self).faults < MaxFaults
    /\ LET e == Locals(self)
       IN  IF ok
           THEN /\ sheet' = [sheet EXCEPT ![Head(e.todo)] = <<>>]
                /\ Becomes(self, [e EXCEPT !.pc = "update",
                                            !.remote = Append(@, "clear")])
           ELSE /\ Becomes(self, [e EXCEPT !.pc = "raised", !.faults = @ + 1,
                                            !.remote = Append(@, "clear")])
                /\ UNCHANGED sheet
    /\ UNCHANGED exported

RECURSIVE Flatten(_)
\* The rows of the batches, one batch after the other.
Flatten(batches) ==
    IF batches = <<>> THEN <<>>
    ELSE Head(batches) \o Flatten(Tail(batches))

\* An update that sends every row in a call of its own.
update_requests_per_row(filtered_rows) ==
    [i \in DOMAIN filtered_rows |-> <<filtered_rows[i]>>]

\* The calls of ws.update (lines 74-75): one call, with the range A1:<last
\* column><number of rows> and every row of filtered_rows.
update_requests(filtered_rows) == <<filtered_rows>>

\* ws.update(range, filtered_rows, value_input_option="USER_ENTERED")
\* (lines 74-75), then the next tab of export_day.
update(self, ok) ==
    /\ Locals(self).pc = "update"
    /\ ~ok => Locals(self).faults < MaxFaults
    /\ LET e == Locals(self)
           batches == update_requests(e.filtered_rows)
           sent == e.remote \o [i \in DOMAIN batches |-> "update"]
       IN  IF ok
           THEN /\ sheet' = [sheet EXCEPT ![Head(e.todo)] = Flatten(batches)]
                /\ Becomes(self, [e EXCEPT
                            !.pc = IF Tail(e.todo) = <<>>
                                   THEN "returned" ELSE "read",
                            !.todo = Tail(e.todo),
                            !.filtered_rows = <<>>,
                            !.remote = sent])
           ELSE /\ Becomes(self, [e EXCEPT !.pc = "raised", !.faults = @ + 1,
                                            !.remote = Append(@, "update")])
                /\ UNCHANGED sheet
    /\ UNCHANGED exported

(***************************************************************************)
(* The specification of the export: the database is as the handlers left   *)
(* it and does not change; export_day is called again and again, one call  *)
(* after the other.                                                        *)
(***************************************************************************)
\* The rows a tab may hold before an export: its header, an empty row, a row
\* without a date, a row of each day.
TabRows ==
    {headers("Sales"), <<>>, <<"", "1", "1">>}
        \cup {<<isoformat(d), "1", "1">> : d \in Days}

TabContents == UNION {[1..n -> TabRows] : n \in 0..MaxTabRows}

\* The content with the header of the tab for headers_sales.
ContentOf(c, tab) ==
    [i \in DOMAIN c |->
        IF c[i] = headers("Sales") THEN headers(tab.kind) ELSE c[i]]

SalesTables ==
    {{}} \cup {{[id |-> 1, branch_id |-> b, menu_item_id |-> 1, date |-> d]} :
                  b \in BranchIds, d \in Days}

ExpenseTables ==
    {{}} \cup {{[id |-> 1, branch_id |-> b, date |-> d]} :
                  b \in BranchIds, d \in Days}

InitExport ==
    /\ admins = (1 :> [role |-> "admin", is_active |-> TRUE])
    /\ branches = [b \in BranchIds |-> [is_active |-> b = 1]]
    /\ user_branch_permissions = EmptyBag
    /\ last = NoRequest
    /\ menu_items \in {{}, {[id |-> 1, branch_id |-> 1]}}
    /\ inventory = {}
    /\ daily_sales \in SalesTables
    /\ daily_expenses \in ExpenseTables
    /\ opening_balances = {}
    /\ \E c \in TabContents : sheet = [t \in Tabs |-> ContentOf(c, t)]
    /\ export = IdleExport
    /\ exported = NoExport
    /\ manual = IdleExport
    /\ orders = {}
    /\ order_items = {}
    /\ requests = NoRequests
    /\ password_reset_tokens = NoTokens
    /\ password_hash = NoPasswords
    /\ utcnow = 0
    /\ generated = 0
    /\ resets = NoResets

NextExport ==
    \/ \E d \in Days, b \in {1, NoBranch}, opened \in BOOLEAN :
           export_day("job", d, b, opened)
               /\ UNCHANGED <<permVars, last, dataVars, orderVars, txVars, resetVars>>
    \/ \E outcome \in {"ok", "except", "raise"} :
           get_all_values("job", outcome)
               /\ UNCHANGED <<permVars, last, dataVars, orderVars, txVars, resetVars>>
    \/ \E ok \in BOOLEAN :
           clear("job", ok) /\ UNCHANGED <<permVars, last, dataVars, orderVars, txVars, resetVars>>
    \/ \E ok \in BOOLEAN :
           update("job", ok) /\ UNCHANGED <<permVars, last, dataVars, orderVars, txVars, resetVars>>

SpecExport == InitExport /\ [][NextExport]_vars

(***************************************************************************)
(* Properties of the export.                                               *)
(***************************************************************************)
\* export_day has returned, and the call before it, with the same date and
\* branch, had returned too.
ReturnedTwice ==
    /\ export.pc = "returned"
    /\ exported.returned
    /\ exported.target_date = export.target_date
    /\ exported.branch_id = export.branch_id

\* C4: when export_day(D, B) returns twice in succession, the database
\* unchanged, every tab is after the second call as the first call left it.
C4_ExportIdempotent == ReturnedTwice => sheet = exported.sheet

\* C4 for second calls in which every get_all_values answered.
ExportIdempotentWhenRead ==
    (ReturnedTwice /\ ~export.swallowed) => sheet = exported.sheet

\* A second call of export_day has returned after reading every tab.
ReturnedTwiceAfterReading ==
    /\ ReturnedTwice
    /\ ~export.swallowed
    /\ \E t \in Tabs : Len(sheet[t]) > 1

(***************************************************************************)
(* The specification of the export of what the handlers recorded: the      *)
(* administrator creates and deletes menu items, records sales and         *)
(* expenses; between these requests export_day runs, every remote call     *)
(* answering.                                                              *)
(***************************************************************************)
\* No export_day is between its first and its last remote call.
NoExportRunning == export.pc \in {"idle", "returned", "raised"}

InitRecorded ==
    /\ admins = (1 :> [role |-> "admin", is_active |-> TRUE])
    /\ branches = [b \in BranchIds |-> [is_active |-> TRUE]]
    /\ user_branch_permissions = EmptyBag
    /\ last = NoRequest
    /\ menu_items = {}
    /\ inventory = {}
    /\ daily_sales = {}
    /\ daily_expenses = {}
    /\ opening_balances = {}
    /\ \E c \in TabContents : sheet = [t \in Tabs |-> ContentOf(c, t)]
    /\ export = IdleExport
    /\ exported = NoExport
    /\ manual = IdleExport
    /\ orders = {}
    /\ order_items = {}
    /\ requests = NoRequests
    /\ password_reset_tokens = NoTokens
    /\ password_hash = NoPasswords
    /\ utcnow = 0
    /\ generated = 0
    /\ resets = NoResets

NextRecorded ==
    \/ \E b \in BranchIds :
           /\ NoExportRunning
           /\ create_branch_menu_item(1, b)
           /\ UNCHANGED <<permVars, sheetVars, orderVars, txVars, resetVars>>
    \/ \E b \in BranchIds, i \in RowIds :
           /\ NoExportRunning
           /\ delete_branch_menu_item(1, b, i)
           /\ UNCHANGED <<permVars, sheetVars, orderVars, txVars, resetVars>>
    \/ \E b \in BranchIds, i \in RowIds :
           /\ NoExportRunning
           /\ record_sale(1, b, i)
           /\ UNCHANGED <<permVars, sheetVars, orderVars, txVars, resetVars>>
    \/ \E b \in BranchIds :
           /\ NoExportRunning
           /\ create_expense(1, b)
           /\ UNCHANGED <<permVars, sheetVars, orderVars, txVars, resetVars>>
    \/ \E d \in Days, b \in BranchIds \cup {NoBranch} :
           export_day("job", d, b, TRUE)
               /\ UNCHANGED <<permVars, last, dataVars, orderVars, txVars, resetVars>>
    \/ get_all_values("job", "ok")
           /\ UNCHANGED <<permVars, last, dataVars, orderVars, txVars, resetVars>>
    \/ clear("job", TRUE) /\ UNCHANGED <<permVars, last, dataVars, orderVars, txVars, resetVars>>
    \/ update("job", TRUE) /\ UNCHANGED <<permVars, last, dataVars, orderVars, txVars, resetVars>>

SpecRecorded == InitRecorded /\ [][NextRecorded]_vars

(***************************************************************************)
(* Properties of the export of recorded data.                              *)
(***************************************************************************)
\* The records of the table that a tab is to show for the date.
RecordsOf(tab, target_date) ==
    {r \in (IF tab.kind = "Sales" THEN daily_sales ELSE daily_expenses) :
        r.branch_id = tab.branch_id /\ r.date = target_date}

\* The rows of a tab whose date column is the date.
RowsDated(rows, target_date) ==
    LET dated(row) == Len(row) > 0 /\ row[1] = isoformat(target_date)
    IN  SelectSeq(rows, dated)


\* C11: when export_day(D, B) has written a tab of branch B, the tab holds
\* as many rows dated D as the table (daily_sales for Sales_bB,
\* daily_expenses for Expenses_bB) holds records of branch B on D: one row
\* per record, none dropped and none merged.
C11_RowPerRecord ==
    [][ (export.pc = "update" /\ export'.pc \in {"read", "returned"}) =>
          LET tab == Head(export.todo)
          IN  Len(RowsDated(sheet'[tab], export.target_date))
                = Cardinality(RecordsOf(tab, export.target_date))
      ]_vars

\* The same for the Expenses tabs, and for the Sales tabs while the menu
\* item of every sale of the branch is in menu_items.
RowPerRecordWhenJoined ==
    [][ (export.pc = "update" /\ export'.pc \in {"read", "returned"}) =>
          LET tab == Head(export.todo)
              records == RecordsOf(tab, export.target_date)
          IN  (tab.kind = "Sales" =>
                  \A r \in records : r.menu_item_id \in Ids(menu_items))
              => Len(RowsDated(sheet'[tab], export.target_date))
                   = Cardinality(records)
      ]_vars

(***************************************************************************)
(* Properties of the denials of the handlers of branch-scoped resources.   *)
(***************************************************************************)
\* The only row of (user_id, branch_id) is a view_only row.
HoldsViewOnly(user_id, branch_id) ==
    PermissionRows(user_branch_permissions, user_id, branch_id)
        = {Row(user_id, branch_id, VIEW_ONLY)}

\* C12: for a worker w whose row on branch b is view_only, create_expense
\* for b is denied with 403 'Insufficient permissions for this branch' and
\* daily_expenses is unchanged; get_expenses for b by the same worker is
\* answered with exactly the expenses of b.
C12_ViewOnlyReadsButCannotRecord ==
    [][ \A w \in Workers, b \in BranchIds :
          (HoldsViewOnly(w, b) /\ admins[w].is_active) =>
             /\ create_expense(w, b) =>
                   /\ last'.status = 403
                   /\ last'.detail = "Insufficient permissions for this branch"
                   /\ daily_expenses' = daily_expenses
             /\ get_expenses(w, b) =>
                   /\ last'.status = 200
                   /\ last'.body = Body("daily_expenses",
                                        OfBranch(daily_expenses, b))
      ]_vars

\* C12, its case: create_expense has been denied for insufficient
\* permissions while a worker holds a view_only row on a branch that has an
\* expense to read.
C12_Witness ==
    /\ last.op = "create_expense"
    /\ last.status = 403
    /\ last.detail = "Insufficient permissions for this branch"
    /\ \E w \in Workers, b \in BranchIds :
          HoldsViewOnly(w, b) /\ OfBranch(daily_expenses, b) # {}

\* The denial of an unscoped query of a worker without permission rows.
NoBranchPermissionsAssigned ==
    {"No branch permissions assigned", "No branch access assigned"}

\* C13: a worker without any permission row who calls get_worker_sales, or
\* get_sales_enhanced or get_expenses without a branch_id, is answered 403
\* with the no-branch-permissions reason: not with a successful result and
\* not with an unhandled error.
C13_UnscopedQueryDenied ==
    [][ \A w \in Workers :
          (UserRows(user_branch_permissions, w) = {} /\ admins[w].is_active) =>
             ((\/ get_worker_sales(w)
               \/ get_sales_enhanced(w, NoBranch)
               \/ get_expenses(w, NoBranch))
              => /\ last'.status = 403
                 /\ last'.detail \in NoBranchPermissionsAssigned)
      ]_vars

\* The same for get_sales_enhanced and get_expenses called on their own
\* routes.
UnscopedQueryDeniedOnOwnRoute ==
    [][ \A w \in Workers :
          (UserRows(user_branch_permissions, w) = {} /\ admins[w].is_active) =>
             ((get_sales_enhanced(w, NoBranch) \/ get_expenses(w, NoBranch))
              => /\ last'.status = 403
                 /\ last'.detail \in NoBranchPermissionsAssigned)
      ]_vars

(***************************************************************************)
(* The specification of two concurrent exports: export_yesterday_job runs  *)
(* on the scheduler's thread, manual_export_to_sheets on a worker thread   *)
(* of the server; each calls export_day once, every remote call answers,   *)
(* and the database does not change.                                       *)
(***************************************************************************)
InitConcurrent ==
    /\ admins = (1 :> [role |-> "admin", is_active |-> TRUE])
    /\ branches = (1 :> [is_active |-> TRUE])
    /\ user_branch_permissions = EmptyBag
    /\ last = NoRequest
    /\ menu_items = {[id |-> 1, branch_id |-> 1]}
    /\ inventory = {}
    /\ daily_sales \in SalesTables
    /\ daily_expenses \in ExpenseTables
    /\ opening_balances = {}
    /\ \E c \in TabContents : sheet = [t \in Tabs |-> ContentOf(c, t)]
    /\ export = IdleExport
    /\ exported = NoExport
    /\ manual = IdleExport
    /\ orders = {}
    /\ order_items = {}
    /\ requests = NoRequests
    /\ password_reset_tokens = NoTokens
    /\ password_hash = NoPasswords
    /\ utcnow = 0
    /\ generated = 0
    /\ resets = NoResets

NextConcurrent ==
    \/ \E d \in Days :
           /\ export.pc = "idle"
           /\ export_day("job", d, NoBranch, TRUE)
           /\ UNCHANGED <<permVars, last, dataVars, orderVars, txVars, resetVars>>
    \/ \E d \in Days, b \in {1, NoBranch} :
           /\ manual.pc = "idle"
           /\ AdminGate(1).status = 200
           /\ export_day("manual", d, b, TRUE)
           /\ UNCHANGED <<permVars, last, dataVars, orderVars, txVars, resetVars>>
    \/ \E self \in Invocations :
           get_all_values(self, "ok")
               /\ UNCHANGED <<permVars, last, dataVars, orderVars, txVars, resetVars>>
    \/ \E self \in Invocations :
           clear(self, TRUE) /\ UNCHANGED <<permVars, last, dataVars, orderVars, txVars, resetVars>>
    \/ \E self \in Invocations :
           update(self, TRUE) /\ UNCHANGED <<permVars, last, dataVars, orderVars, txVars, resetVars>>

SpecConcurrent == InitConcurrent /\ [][NextConcurrent]_vars

(***************************************************************************)
(* Properties of concurrent exports.                                       *)
(***************************************************************************)
\* The content one export_day(target_date, ...) leaves in a tab that held
\* `content`, the database as it is.
SingleExport(content, tab, target_date) ==
    replace_data_for_date(content, isoformat(target_date),
                          new_rows(tab, target_date), headers(tab.kind))

\* The data rows of a tab: the rows whose first cell is a date.
DataRows(content) ==
    LET data(row) == Len(row) > 0 /\ \E d \in Days : row[1] = isoformat(d)
    IN  SelectSeq(content, data)

\* Both invocations have returned; they were for the same date and the same
\* branches and began on the same content of the spreadsheet.
BothReturned ==
    /\ export.pc = "returned"
    /\ manual.pc = "returned"
    /\ export.target_date = manual.target_date
    /\ branches_to_export(export.branch_id) = branches_to_export(manual.branch_id)
    /\ export.before = manual.before

\* C14: when the job's and the manual export_day for the same date and
\* branches have both returned, however their remote calls interleaved,
\* every tab of those branches holds the data rows a single export leaves:
\* the rows of other dates as they were, the rows of the date once.
C14_ConcurrentExportsConverge ==
    BothReturned =>
        \A tab \in Tabs :
            tab.branch_id \in branches_to_export(export.branch_id) =>
                DataRows(sheet[tab])
                  = DataRows(SingleExport(export.before[tab], tab,
                                          export.target_date))

\* C15: when export_day has raised at a remote call, the data rows of every
\* tab are either the ones the tab held when the call began or the complete
\* ones the export writes for it (the kept rows and the rows of the date);
\* a tab is never left cleared or without both the old and the new rows of
\* the date.
C15_ReplaceIsAtomic ==
    export.pc = "raised" =>
        \A tab \in Tabs :
            DataRows(sheet[tab]) \in
                {DataRows(export.before[tab]),
                 DataRows(SingleExport(export.before[tab], tab,
                                       export.target_date)),
                 DataRows(SingleExport(<<>>, tab, export.target_date))}

\* C16: an export_day in which _open_sheet or a remote call failed raises to
\* its caller; it does not return normally. (export_yesterday_job catches
\* what export_day raises, so the next export_day is called from the state
\* "raised" as from "returned".)
C16_FailedExportRaises == export.pc = "returned" => ~export.swallowed

\* The same for the failures of _open_sheet, ws.clear() and ws.update(), and
\* for an exception of get_all_values that is not caught: the step of the
\* failure ends the invocation in "raised", and it changes no tab.
OtherFailuresRaise ==
    [][ (export'.faults > export.faults /\ ~export'.swallowed) =>
            export'.pc = "raised" /\ sheet' = sheet
      ]_vars

\* The reasons the handlers give a worker who has no row for the branch.
NoBranchAccess ==
    {"No access to this branch", "You do not have permission for this branch",
     "No branch access assigned"}

InsufficientPermission == "Insufficient permissions for this branch"

\* A step of a handler that tests the worker's permission for the branch: a
\* read of the branch, or a write of `writes`.
ReadOf(w, b) ==
    \/ get_expenses(w, b)
    \/ get_sales_enhanced(w, b)
    \/ get_branch_daily_sales(w, b)
    \/ get_opening_balance_for_date(w, b)

\* What the claim asks of the step of a write or a read of worker w on b.
ToldApart(w, b, write) ==
    /\ (PermissionRows(user_branch_permissions, w, b) = {}
        /\ (write \/ ReadOf(w, b)))
       => last'.status = 403 /\ last'.detail \in NoBranchAccess
    /\ (HoldsViewOnly(w, b) /\ write)
       => last'.status = 403 /\ last'.detail = InsufficientPermission

\* C17: in every branch-scoped operation that tests permissions, an active
\* worker without a row for the branch is denied with a no-access reason,
\* and a worker with a view_only row is denied a write with the
\* insufficient-permissions reason; the writes are create_expense,
\* record_sale and create_or_update_opening_balance.
C17_DenialsTellApart ==
    [][ \A w \in Workers, b \in BranchIds :
          admins[w].is_active =>
            ToldApart(w, b,
                \/ create_expense(w, b)
                \/ \E i \in RowIds : record_sale(w, b, i)
                \/ \E x \in Amounts : create_or_update_opening_balance(w, b, x))
      ]_vars

\* The same without create_or_update_opening_balance.
DenialsToldApartElsewhere ==
    [][ \A w \in Workers, b \in BranchIds :
          admins[w].is_active =>
            ToldApart(w, b,
                \/ create_expense(w, b)
                \/ \E i \in RowIds : record_sale(w, b, i))
      ]_vars

(***************************************************************************)
(* Properties of the gate of the administrative operations.                *)
(***************************************************************************)
\* A step of one of the four administrative operations called by `actor`.
AdminOperation(actor) ==
    \/ \E u \in UserIds, b \in BranchIds, l \in PermissionLevel :
          assign_branch_permission(actor, u, b, l)
    \/ \E u \in UserIds, b \in BranchIds : revoke_branch_permission(actor, u, b)
    \/ \E u \in UserIds : grant_all_branches_full_access(actor, u)
    \/ \E u \in UserIds, b \in BranchIds : limit_to_single_branch(actor, u, b)

AdminOperations ==
    {"assign_branch_permission", "revoke_branch_permission",
     "grant_all_branches_full_access", "limit_to_single_branch"}

\* C18 as stated: called by any user whose role is not admin, the four
\* operations return 403 and leave user_branch_permissions unchanged. A
\* deactivated worker is answered 400 by get_current_active_user.
C18_NonAdminGets403 ==
    [][ \A a \in DOMAIN admins :
          (admins[a].role # "admin" /\ AdminOperation(a)) =>
             /\ last'.status = 403
             /\ user_branch_permissions' = user_branch_permissions
      ]_vars

\* C18 with the answer of a deactivated caller: called by a user whose role
\* is not admin, the four operations leave user_branch_permissions
\* unchanged and return 403 'Admin access required' when the caller is
\* active, 400 'Inactive user' when it is not.
C18_NonAdminRefused ==
    [][ \A a \in DOMAIN admins :
          (admins[a].role # "admin" /\ AdminOperation(a)) =>
             /\ IF admins[a].is_active
                THEN last'.status = 403 /\ last'.detail = "Admin access required"
                ELSE last'.status = 400 /\ last'.detail = "Inactive user"
             /\ user_branch_permissions' = user_branch_permissions
      ]_vars

\* C18, its case: an administrative operation has been refused with
\* 'Admin access required' while the table holds rows and a worker is
\* active.
C18_Witness ==
    /\ last.op \in AdminOperations
    /\ last.status = 403
    /\ last.detail = "Admin access required"
    /\ user_branch_permissions # EmptyBag
    /\ \E w \in Workers : admins[w].is_active

(***************************************************************************)
(* main.py: create_order. The rows of menu_items carry the price (in       *)
(* hundredths) and the flag is_available.                                  *)
(***************************************************************************)
MenuIds == 1..MaxMenu

\* The row of menu_items with the id: db.query(MenuItem).filter(id).first()
menu_item_of(id) == CHOOSE m \in menu_items : m.id = id

\* item_total that forgets the quantity.
item_total_unit_price(price, quantity) == price

\* item_total = menu_item.price * item.quantity (main.py 2309)
item_total(price, quantity) == price * quantity

RECURSIVE total_amount_of(_)
\* total_amount after the loop over order.items (main.py 2301-2310)
total_amount_of(items) ==
    IF items = <<>> THEN 0
    ELSE total_amount_of(SubSeq(items, 1, Len(items) - 1))
         + item_total(menu_item_of(items[Len(items)].menu_item_id).price,
                      items[Len(items)].quantity)

\* order_items_data (main.py 2311-2317) as the rows of order_items: the ids
\* follow first_id in the order of the request.
order_items_data(items, order_id, first_id) ==
    {[id |-> first_id + i - 1,
      order_id |-> order_id,
      menu_item_id |-> items[i].menu_item_id,
      quantity |-> items[i].quantity,
      unit_price |-> menu_item_of(items[i].menu_item_id).price,
      total_price |-> item_total(menu_item_of(items[i].menu_item_id).price,
                                 items[i].quantity)] : i \in DOMAIN items}

\* POST /api/orders (main.py 2298-2331): the route has no dependency on a
\* user. The first item that is missing or unavailable ends the request
\* before anything is added to the session.
create_order(branch_id, items) ==
    LET op == "create_order"
        missing(i) == items[i].menu_item_id \notin Ids(menu_items)
        refused == {i \in DOMAIN items :
                      missing(i)
                      \/ ~menu_item_of(items[i].menu_item_id).is_available}
        first == CHOOSE i \in refused : \A j \in refused : i <= j
        id == NextId(Ids(orders))
        total_amount == total_amount_of(items)
    IN  IF refused # {}
        THEN /\ Reply(IF missing(first)
                      THEN Rejected(op, 404, "Menu item not found")
                      ELSE Rejected(op, 400, "Menu item is not available"))
             /\ UNCHANGED <<orders, order_items>>
        ELSE /\ id <= MaxOrders
             /\ orders' = orders \cup
                   {[id |-> id, branch_id |-> branch_id,
                     total_amount |-> total_amount, status |-> "pending"]}
             /\ order_items' = order_items \cup
                   order_items_data(items, id, NextId(Ids(order_items)))
             /\ Reply(Answer(op, 0, branch_id,
                             {BodyRow("orders", branch_id, id, total_amount)}))

(***************************************************************************)
(* The specification of the orders: the menu is as the administrator left  *)
(* it; orders are created and menu items are deleted.                      *)
(***************************************************************************)
\* The menus of branch 1: for every id no row or one row.
Menus ==
    {m \in SUBSET [id : MenuIds, branch_id : {1}, price : 1..MaxPrice,
                   is_available : BOOLEAN] :
        \A x, y \in m : x.id = y.id => x = y}

\* The bodies of the requests: order.items.
OrderItemCreate == [menu_item_id : MenuIds, quantity : 1..MaxQuantity]

OrderRequests == UNION {[1..n -> OrderItemCreate] : n \in 0..MaxItems}

InitOrders ==
    /\ admins = (1 :> [role |-> "admin", is_active |-> TRUE])
    /\ branches = (1 :> [is_active |-> TRUE])
    /\ user_branch_permissions = EmptyBag
    /\ last = NoRequest
    /\ menu_items \in Menus
    /\ inventory = {}
    /\ daily_sales = {}
    /\ daily_expenses = {}
    /\ opening_balances = {}
    /\ sheet = EmptySheet
    /\ export = IdleExport
    /\ exported = NoExport
    /\ manual = IdleExport
    /\ orders = {}
    /\ order_items = {}
    /\ requests = NoRequests
    /\ password_reset_tokens = NoTokens
    /\ password_hash = NoPasswords
    /\ utcnow = 0
    /\ generated = 0
    /\ resets = NoResets

NextOrders ==
    \/ \E b \in DOMAIN branches, items \in OrderRequests :
           create_order(b, items) /\ UNCHANGED <<permVars, dataVars, sheetVars, txVars, resetVars>>
    \/ \E i \in MenuIds :
           delete_branch_menu_item(1, 1, i)
               /\ UNCHANGED <<permVars, sheetVars, orderVars, txVars, resetVars>>

SpecOrders == InitOrders /\ [][NextOrders]_vars

(***************************************************************************)
(* Properties of create_order.                                             *)
(***************************************************************************)
RECURSIVE SumOver(_, _)
\* The sum of f over the set S of its indices.
SumOver(f, S) ==
    IF S = {} THEN 0
    ELSE LET i == CHOOSE x \in S : TRUE
         IN  f[i] + SumOver(f, S \ {i})

\* Every item of the request is in menu_items and available.
Orderable(items) ==
    \A i \in DOMAIN items :
        \E m \in menu_items : m.id = items[i].menu_item_id /\ m.is_available

TabInHand == Head(export.todo)

\* C20: export_day called with branch_id = None reads or writes the tabs of a
\* branch only if that branch is active: whenever such a call has read a tab
\* (and is about to clear or update it), the tab belongs to an active branch.
C20_OnlyActiveBranchesExported ==
    (export.branch_id = NoBranch /\ export.pc \in {"clear", "update"})
        => branches[TabInHand.branch_id].is_active

\* The other half holds: a call with branch_id = None that has returned has
\* gone through the tabs of every branch there is, the active ones included,
\* and a call for one branch touches the tabs of that branch alone.
OneBranchExportTouchesItsTabs ==
    (export.branch_id # NoBranch /\ export.pc \in {"read", "clear", "update"})
        => TabInHand.branch_id = export.branch_id

(***************************************************************************)
(* C21: the rows of the exported date after an export.                     *)
(***************************************************************************)
\* The tabs that export_day with this branch_id goes through.
ExportedTabs(branch_id) ==
    {t \in Tabs : t.branch_id \in branches_to_export(branch_id)}

\* C21: when export_day(D, B) has returned, in every tab it went through the
\* rows whose date column is D are exactly the rows computed from the
\* database for (D, B), in their order, whatever rows dated D the tab held
\* when the call began: no stale row survives, no row is duplicated.
C21_DateRowsAreCurrent ==
    export.pc = "returned" =>
        \A t \in ExportedTabs(export.branch_id) :
            RowsDated(sheet[t], export.target_date)
                = new_rows(t, export.target_date)

\* C21's case: export_day has returned, and a tab it went through held,
\* when the call began, rows dated D that are not the rows computed now,
\* while the database has rows for it.
C21_Witness ==
    /\ export.pc = "returned"
    /\ \E t \in ExportedTabs(export.branch_id) :
          /\ RowsDated(export.before[t], export.target_date) # <<>>
          /\ new_rows(t, export.target_date) # <<>>
          /\ RowsDated(export.before[t], export.target_date)
                 # new_rows(t, export.target_date)
          /\ RowsDated(sheet[t], export.target_date)
                 = new_rows(t, export.target_date)

(***************************************************************************)
(* C22: grant_all_branches_full_access.                                    *)
(***************************************************************************)
\* The rows of user u for the branches that are not active, and the rows of
\* every other user.
OutsideGrant(table, u) ==
    {r \in BagToSet(table) : r.user_id # u \/ r.branch_id \notin ActiveBranches}

\* C22: a grant_all_branches_full_access(u) that succeeds leaves user u with
\* exactly one row, of level full_access, for every active branch; the rows
\* of u for branches that are not active and the rows of the other users
\* are the same as before, each as many times.
C22_GrantAllFrame ==
    [][\A a \in DOMAIN admins, u \in UserIds :
          (grant_all_branches_full_access(a, u) /\ last'.status = 200) =>
              /\ \A b \in ActiveBranches :
                    /\ RowCount(user_branch_permissions', u, b) = 1
                    /\ \A r \in PermissionRows(user_branch_permissions', u, b) :
                          r.permission_level = FULL_ACCESS
              /\ OutsideGrant(user_branch_permissions', u)
                     = OutsideGrant(user_branch_permissions, u)
              /\ \A r \in OutsideGrant(user_branch_permissions, u) :
                    CopiesIn(r, user_branch_permissions')
                        = CopiesIn(r, user_branch_permissions)]_vars

\* C22's case: grant_all_branches_full_access(u) has succeeded, u holds
\* full_access on an active branch and still holds a view_only row for a
\* branch that is not active.
C22_Witness ==
    /\ last.op = "grant_all_branches_full_access"
    /\ last.status = 200
    /\ \E b \in ActiveBranches :
          \E r \in PermissionRows(user_branch_permissions, last.user_id, b) :
              r.permission_level = FULL_ACCESS
    /\ \E b \in DOMAIN branches \ ActiveBranches :
          \E r \in PermissionRows(user_branch_permissions, last.user_id, b) :
              r.permission_level = VIEW_ONLY

(***************************************************************************)
(* assign_branch_permission, request by request: each request runs in its  *)
(* own database session, so between the SELECT of lines 3316-3319 and the  *)
(* db.commit() of lines 3324 or 3329 another session may commit.           *)
(***************************************************************************)
\* assign_branch_permission up to the query of `existing` (lines 3300-3319).
assign_query(self, actor, user_id, branch_id, permission_level) ==
    /\ requests[self].pc \in {"idle", "done"}
    /\ actor \in DOMAIN admins
    /\ LET gate == AdminGate(actor)
           r == [IdleRequest EXCEPT !.user_id = user_id,
                                    !.branch_id = branch_id,
                                    !.permission_level = permission_level]
       IN  requests' = [requests EXCEPT ![self] =
             IF gate.status # 200
             THEN [r EXCEPT !.pc = "done", !.status = gate.status]
             ELSE IF permission_level \notin {"view_only", "full_access"}
             THEN [r EXCEPT !.pc = "done", !.status = 400]
             ELSE [r EXCEPT
                     !.pc = "queried",
                     !.existing = PermissionRows(user_branch_permissions,
                                                 user_id, branch_id) # {}]]
    /\ UNCHANGED <<permVars, last>>

\* The rest of the handler (lines 3321-3332): the UPDATE of the row found,
\* or the INSERT of a new row; db.commit() raises IntegrityError when the
\* INSERT breaks unique_user_branch, nothing catches it, and the request is
\* answered 500.
assign_commit(self) ==
    /\ requests[self].pc = "queried"
    /\ LET r == requests[self]
           found == PermissionRows(user_branch_permissions,
                                   r.user_id, r.branch_id)
       IN  IF r.existing
           THEN /\ \E row \in found :
                      user_branch_permissions' =
                          UpdateRow(user_branch_permissions, row,
                                    r.permission_level)
                /\ requests' = [requests EXCEPT ![self].pc = "done",
                                                ![self].status = 200]
           ELSE IF /\ unique_user_branch(user_branch_permissions,
                                         r.user_id, r.branch_id)
                   /\ ForeignKeysHold(r.user_id, r.branch_id)
           THEN /\ user_branch_permissions' =
                      InsertRow(user_branch_permissions,
                                Row(r.user_id, r.branch_id, r.permission_level))
                /\ requests' = [requests EXCEPT ![self].pc = "done",
                                                ![self].status = 200]
           ELSE /\ UNCHANGED user_branch_permissions
                /\ requests' = [requests EXCEPT ![self].pc = "done",
                                                ![self].status = 500]
    /\ UNCHANGED <<admins, branches, last>>

\* The administrator and a worker, the branches of the sample data, and a
\* table that holds no row or one.
InitAssign ==
    /\ admins = (1 :> [role |-> "admin", is_active |-> TRUE])
                  @@ (2 :> [role |-> "worker", is_active |-> TRUE])
    /\ branches = [b \in BranchIds |-> [is_active |-> TRUE]]
    /\ user_branch_permissions \in
           {EmptyBag} \cup {SetToBag({Row(2, 1, l)}) : l \in PermissionLevel}
    /\ last = NoRequest
    /\ menu_items = {}
    /\ inventory = {}
    /\ daily_sales = {}
    /\ daily_expenses = {}
    /\ opening_balances = {}
    /\ sheet = EmptySheet
    /\ export = IdleExport
    /\ exported = NoExport
    /\ manual = IdleExport
    /\ orders = {}
    /\ order_items = {}
    /\ requests = NoRequests
    /\ password_reset_tokens = NoTokens
    /\ password_hash = NoPasswords
    /\ utcnow = 0
    /\ generated = 0
    /\ resets = NoResets

NextAssign ==
    \/ \E self \in RequestIds, a \in DOMAIN admins, b \in BranchIds,
          l \in PermissionLevel \cup {"owner"} :
           assign_query(self, a, 2, b, l)
               /\ UNCHANGED <<dataVars, sheetVars, orderVars, resetVars>>
    \/ \E self \in RequestIds :
           assign_commit(self)
               /\ UNCHANGED <<dataVars, sheetVars, orderVars, resetVars>>

SpecAssign == InitAssign /\ [][NextAssign]_vars

\* Both requests have been answered; they were for the same user and branch
\* and each found no row of the pair.
BothFoundNoRow ==
    /\ \A self \in RequestIds :
          /\ requests[self].pc = "done"
          /\ requests[self].status \in {200, 500}
          /\ ~requests[self].existing
    /\ requests[1].user_id = requests[2].user_id
    /\ requests[1].branch_id = requests[2].branch_id

\* The table holds one row of the pair of the requests, with the level of
\* one of them.
OneRowOfARequest ==
    /\ RowCount(user_branch_permissions,
                requests[1].user_id, requests[1].branch_id) = 1
    /\ \A row \in PermissionRows(user_branch_permissions,
                                 requests[1].user_id, requests[1].branch_id) :
          row.permission_level \in
              {requests[self].permission_level : self \in RequestIds}

\* C23: when two assign_branch_permission requests for the same user and
\* branch have both found no row before either committed, neither is
\* answered with a failure, and one row of the pair remains, with the level
\* of one of the requests.
C23_ConcurrentAssignBothSucceed ==
    BothFoundNoRow =>
        /\ \A self \in RequestIds : requests[self].status = 200
        /\ OneRowOfARequest

\* What holds of the two requests: one row of the pair remains, with the
\* level of one of them.
ConcurrentAssignKeepsOneRow == BothFoundNoRow => OneRowOfARequest

(***************************************************************************)
(* main.py: delete_branch.                                                 *)
(***************************************************************************)
\* has_menu_items or has_sales or has_expenses (main.py 1126-1129)
has_associations(branch_id) ==
    \/ \E m \in menu_items : m.branch_id = branch_id
    \/ \E s \in daily_sales : s.branch_id = branch_id
    \/ \E e \in daily_expenses : e.branch_id = branch_id

\* The bag without the rows of the branch.
WithoutBranch(table, branch_id) ==
    LET kept == {r \in BagToSet(table) : r.branch_id # branch_id}
    IN  [r \in kept |-> table[r]]

\* DELETE /api/branches/{branch_id} (main.py 1114-1137). db.delete(db_branch)
\* cascades to the relationships of Branch (models.py 25-32): the rows of
\* user_branch_permissions, inventory and opening_balances of the branch go
\* with it. Order.branch has no cascade, so the orders of the branch stay;
\* where foreign keys are enforced the commit then raises IntegrityError.
delete_branch(actor, branch_id) ==
    /\ actor \in DOMAIN admins
    /\ LET gate == BranchGate(actor)
           op == "delete_branch"
           refused(r) ==
               /\ Reply(r)
               /\ UNCHANGED <<branches, user_branch_permissions,
                              inventory, opening_balances>>
       IN  IF gate.status # 200
           THEN refused(Rejected(op, gate.status, gate.detail))
           ELSE IF branch_id \notin DOMAIN branches
           THEN refused(Rejected(op, 404, "Branch not found"))
           ELSE IF has_associations(branch_id)
           THEN refused(Rejected(op, 400, "Cannot delete branch with associated menu items, sales, or expenses. Deactivate instead."))
           ELSE IF foreign_keys /\ \E o \in orders : o.branch_id = branch_id
           THEN refused(Rejected(op, 500, "IntegrityError"))
           ELSE /\ branches' = [b \in DOMAIN branches \ {branch_id} |-> branches[b]]
                /\ user_branch_permissions' =
                       WithoutBranch(user_branch_permissions, branch_id)
                /\ inventory' = {r \in inventory : r.branch_id # branch_id}
                /\ opening_balances' =
                       {r \in opening_balances : r.branch_id # branch_id}
                /\ Reply(Response(op, 0, branch_id, "", 204, ""))
    /\ UNCHANGED <<admins, menu_items, daily_sales, daily_expenses, orders,
                   order_items>>

(***************************************************************************)
(* The specification of the branches: the tables are as the handlers left  *)
(* them; branches are deleted, created again and deactivated.              *)
(***************************************************************************)
InventoryTables ==
    {{}} \cup {{[id |-> 1, branch_id |-> b, current_stock |-> 1]} : b \in BranchIds}

OpeningBalanceTables ==
    {{}} \cup {{[branch_id |-> b, amount |-> 1]} : b \in BranchIds}

OrderTables ==
    {{}} \cup {{[id |-> 1, branch_id |-> b, total_amount |-> 0,
                  status |-> "pending"]} : b \in BranchIds}

InitBranches ==
    /\ admins = (1 :> [role |-> "admin", is_active |-> TRUE])
                  @@ (2 :> [role |-> "worker", is_active |-> TRUE])
    /\ branches = [b \in BranchIds |-> [is_active |-> TRUE]]
    /\ user_branch_permissions \in
           {EmptyBag} \cup {SetToBag({Row(2, b, VIEW_ONLY)}) : b \in BranchIds}
    /\ last = NoRequest
    /\ menu_items \in {{}, {[id |-> 1, branch_id |-> 1]}}
    /\ inventory \in InventoryTables
    /\ daily_sales \in {{}, {[id |-> 1, branch_id |-> 1, menu_item_id |-> 1,
                              date |-> Today]}}
    /\ daily_expenses \in {{}, {[id |-> 1, branch_id |-> 2, date |-> Today]}}
    /\ opening_balances \in OpeningBalanceTables
    /\ sheet = EmptySheet
    /\ export = IdleExport
    /\ exported = NoExport
    /\ manual = IdleExport
    /\ orders \in OrderTables
    /\ order_items = {}
    /\ requests = NoRequests
    /\ password_reset_tokens = NoTokens
    /\ password_hash = NoPasswords
    /\ utcnow = 0
    /\ generated = 0
    /\ resets = NoResets

NextBranches ==
    \/ \E a \in DOMAIN admins, b \in BranchIds :
           delete_branch(a, b) /\ UNCHANGED <<sheetVars, txVars, resetVars>>
    \/ \E a \in DOMAIN admins, registered \in BOOLEAN :
           create_branch(a, registered)
               /\ UNCHANGED <<dataVars, sheetVars, orderVars, txVars, resetVars>>
    \/ \E a \in DOMAIN admins, b \in BranchIds, active \in BOOLEAN :
           update_branch(a, b, active)
               /\ UNCHANGED <<dataVars, sheetVars, orderVars, txVars, resetVars>>

SpecBranches == InitBranches /\ [][NextBranches]_vars

\* The tables hold a row of the branch: a permission, a menu item, an
\* inventory item, a sale, an expense, an opening balance or an order.
BranchScopedRows(branch_id) ==
    {r \in BagToSet(user_branch_permissions) : r.branch_id = branch_id}
        \cup {r \in menu_items : r.branch_id = branch_id}
        \cup {r \in inventory : r.branch_id = branch_id}
        \cup {r \in daily_sales : r.branch_id = branch_id}
        \cup {r \in daily_expenses : r.branch_id = branch_id}
        \cup {r \in opening_balances : r.branch_id = branch_id}
        \cup {r \in orders : r.branch_id = branch_id}

\* C24: a delete_branch of a branch that a menu item, a sale or an expense
\* references answers with an error and changes no table; a branch is
\* removed only when none references it; and after a delete_branch that
\* removed the branch, no row of any branch-scoped table references it.
C24_DeleteBranchLeavesNoReference ==
    [][\A a \in DOMAIN admins, b \in BranchIds :
          delete_branch(a, b) =>
              /\ has_associations(b) =>
                    (last'.status >= 400 /\ UNCHANGED <<permVars, dataVars, orderVars>>)
              /\ (b \in DOMAIN branches /\ b \notin DOMAIN branches') =>
                    /\ ~has_associations(b)
                    /\ BranchScopedRows(b)' = {}]_vars

\* What holds of delete_branch: C24 for the tables other than orders.
DeleteBranchLeavesOnlyOrders ==
    [][\A a \in DOMAIN admins, b \in BranchIds :
          delete_branch(a, b) =>
              /\ has_associations(b) =>
                    (last'.status >= 400 /\ UNCHANGED <<permVars, dataVars, orderVars>>)
              /\ (b \in DOMAIN branches /\ b \notin DOMAIN branches') =>
                    /\ ~has_associations(b)
                    /\ BranchScopedRows(b)' \subseteq orders]_vars

(***************************************************************************)
(* C25: the remote calls of one tab.                                       *)
(***************************************************************************)
\* The calls _replace_data_for_date makes on a worksheet, in their order
\* (lines 49, 73, 74). _get_or_create_ws adds its lookup, and add_worksheet
\* for a tab that does not exist, whatever the rows.
CallsOfReplace == <<"get_all_values", "clear", "update">>

IsPrefix(s, t) ==
    /\ Len(s) <= Len(t)
    /\ \A i \in DOMAIN s : s[i] = t[i]

\* C25: the calls made on the worksheet of a tab are, whatever rows the tab
\* holds, a beginning of: one get_all_values, one clear, one update. The tab
\* is read once and written in one update, and no call is made per row.
C25_ConstantCallsPerTab ==
    \A self \in Invocations : IsPrefix(Locals(self).remote, CallsOfReplace)

\* C25's case: export_day has returned, the last tab it wrote held two rows
\* of the exported date when the call began, and the calls made on it were
\* the three.
C25_Witness ==
    /\ export.pc = "returned"
    /\ export.remote = CallsOfReplace
    /\ \E t \in ExportedTabs(export.branch_id) :
          /\ t.kind = "Expenses"
          /\ \A u \in ExportedTabs(export.branch_id) : u.branch_id <= t.branch_id
          /\ Len(RowsDated(export.before[t], export.target_date)) = MaxTabRows

(***************************************************************************)
(* C26: the frame of the export.                                           *)
(***************************************************************************)
\* The data rows of a tab whose date is not the date.
RowsOfOtherDates(content, target_date) ==
    LET other(row) == Len(row) > 0
                      /\ \E d \in Days \ {target_date} : row[1] = isoformat(d)
    IN  SelectSeq(content, other)

\* The tabs of the branches export_day did not go through are as they were
\* when the call began.
OtherTabsUntouched ==
    \A t \in Tabs \ ExportedTabs(export.branch_id) : sheet[t] = export.before[t]

\* C26: when export_day(D, B) has returned, every data row of another date
\* in the tabs of B is as it was when the call began, and the tabs of the
\* other branches are as they were, also when a read of a tab failed or the
\* tab held rows with an empty first cell.
C26_ExportFrame ==
    export.pc = "returned" =>
        /\ \A t \in ExportedTabs(export.branch_id) :
              RowsOfOtherDates(sheet[t], export.target_date)
                  = RowsOfOtherDates(export.before[t], export.target_date)
        /\ OtherTabsUntouched

\* What holds of the frame: the tabs of other branches are untouched in
\* every state, and the rows of other dates are kept in the tabs that were
\* read and that were empty or began with their header.
ExportFrameWhenReadAndHeaded ==
    /\ OtherTabsUntouched
    /\ (export.pc = "returned" /\ ~export.swallowed) =>
          \A t \in ExportedTabs(export.branch_id) :
              (export.before[t] = <<>> \/ export.before[t][1] = headers(t.kind))
                  => RowsOfOtherDates(sheet[t], export.target_date)
                         = RowsOfOtherDates(export.before[t], export.target_date)

\* The first row of a tab is lost when it is not the header, although the
\* read answered (line 57: existing_data = all_data[1:]).
ExportFrameWhenRead ==
    (export.pc = "returned" /\ ~export.swallowed) =>
        \A t \in ExportedTabs(export.branch_id) :
            RowsOfOtherDates(sheet[t], export.target_date)
                = RowsOfOtherDates(export.before[t], export.target_date)

(***************************************************************************)
(* main.py: update_user, and the specification of the users: the           *)
(* administrator deactivates and reactivates users and changes permission  *)
(* rows; every user, active or not, calls the handlers.                    *)
(***************************************************************************)
\* PUT /api/admin/users/{user_id} (main.py 3544-3565), the field is_active.
update_user(actor, user_id, is_active) ==
    /\ actor \in DOMAIN admins
    /\ LET gate == AdminGate(actor)
           op == "update_user"
       IN  IF gate.status # 200
           THEN /\ Reply(Rejected(op, gate.status, gate.detail))
                /\ UNCHANGED admins
           ELSE IF user_id \notin DOMAIN admins
           THEN /\ Reply(Rejected(op, 404, "User not found"))
                /\ UNCHANGED admins
           ELSE /\ admins' = [admins EXCEPT ![user_id].is_active = is_active]
                /\ Reply(Response(op, user_id, 0, "", 200, ""))
    /\ UNCHANGED <<branches, user_branch_permissions>>

InitUsers ==
    /\ admins = [u \in UserIds |->
                    [role |-> IF u = 1 THEN "admin" ELSE "worker",
                     is_active |-> TRUE]]
    /\ branches = [b \in BranchIds |-> [is_active |-> TRUE]]
    /\ user_branch_permissions \in PermissionTables
    /\ last = NoRequest
    /\ menu_items = {}
    /\ inventory = {}
    /\ daily_sales = {}
    /\ daily_expenses = {}
    /\ opening_balances = {}
    /\ sheet = EmptySheet
    /\ export = IdleExport
    /\ exported = NoExport
    /\ manual = IdleExport
    /\ orders = {}
    /\ order_items = {}
    /\ requests = NoRequests
    /\ password_reset_tokens = NoTokens
    /\ password_hash = NoPasswords
    /\ utcnow = 0
    /\ generated = 0
    /\ resets = NoResets

\* A step of a handler that depends on get_current_active_user, called by
\* `actor`, on the permission rows, the users and the branches.
GatedAdministration(actor) ==
    \/ \E u \in UserIds, b \in BranchIds, l \in PermissionLevel :
          assign_branch_permission(actor, u, b, l)
    \/ \E u \in UserIds : delete_user(actor, u)
    \/ \E u \in UserIds, active \in BOOLEAN : update_user(actor, u, active)
    \/ \E b \in BranchIds, l \in PermissionLevel :
          CheckBranchPermission(actor, b, l)

\* A step of a handler of branch-scoped resources that depends on
\* get_current_active_user, called by `actor`.
GatedData(actor) ==
    \/ \E b \in BranchIds : create_expense(actor, b)
    \/ \E b \in BranchIds \cup {NoBranch} : get_expenses(actor, b)
    \/ get_worker_sales(actor)

NextUsers ==
    \/ \E a \in UserIds :
           GatedAdministration(a)
               /\ UNCHANGED <<dataVars, sheetVars, orderVars, txVars, resetVars>>
    \/ \E a \in UserIds :
           GatedData(a)
               /\ UNCHANGED <<permVars, sheetVars, orderVars, txVars, resetVars>>

SpecUsers == InitUsers /\ [][NextUsers]_vars

(***************************************************************************)
(* C27: deactivated users.                                                 *)
(***************************************************************************)
\* What user u may do on a branch once past get_current_active_user.
AccessOf(u) ==
    [b \in BranchIds, l \in PermissionLevel |-> Decision(u, b, l).status]

\* C27: a handler that depends on get_current_active_user, called by a user
\* whose is_active is false, answers 400 'Inactive user' and changes no
\* table, whatever the role and the permission rows of the user; and a
\* delete_user or update_user of user u leaves every permission row and the
\* role of u as they were, so that u, active again, is allowed what it was
\* allowed before.
C27_InactiveUserRejected ==
    [][/\ \A a \in UserIds :
            (~admins[a].is_active /\ (GatedAdministration(a) \/ GatedData(a))) =>
                /\ last'.status = 400
                /\ last'.detail = "Inactive user"
                /\ UNCHANGED <<permVars, dataVars>>
       /\ \A a, u \in UserIds :
            (delete_user(a, u) \/ \E active \in BOOLEAN : update_user(a, u, active)) =>
                /\ user_branch_permissions' = user_branch_permissions
                /\ AccessOf(u)' = AccessOf(u)]_vars

\* C27's case: the worker, the only deactivated user, holds a full_access
\* row, and its create_expense has been answered 400 'Inactive user'.
C27_Witness ==
    /\ last.op = "create_expense"
    /\ last.status = 400
    /\ last.detail = "Inactive user"
    /\ \E u \in Workers :
          /\ ~admins[u].is_active
          /\ \A v \in UserIds \ {u} : admins[v].is_active
          /\ \E b \in BranchIds : HoldsFullAccess(u, b)

(***************************************************************************)
(* main.py: the password reset of /api/auth/forgot-password and            *)
(* /api/auth/reset-password. The handlers are async functions without an   *)
(* await between their reads and writes of password_reset_tokens, so each  *)
(* runs as one step.                                                       *)
(***************************************************************************)
\* Admin.email (and Admin.username) of the user with this id.
email_of(u) == "user" \o ToString(u)

\* request.email: the address of a user, or one that no user has.
Emails == {email_of(u) : u \in UserIds} \cup {"nobody"}

\* request.new_password: one shorter than 8 characters and two that are not.
Passwords == {"short", "longenough1", "longenough2"}

\* get_password_hash (auth.py 34-35)
get_password_hash(password) == "hash:" \o password

\* send_password_reset_email returns, or raises with one of the messages
\* that request_password_reset tells apart (lines 806-830).
SendOutcomes == {"sent", "Network connectivity issue", "authentication failed", "other"}

\* cleanup_expired_reset_tokens (main.py 691-707): the tokens that are left.
cleanup_expired_reset_tokens(tokens, current_time) ==
    LET expired_tokens == {t \in DOMAIN tokens : tokens[t].expires_at < current_time}
    IN  [t \in DOMAIN tokens \ expired_tokens |-> tokens[t]]

\* The user found by email or username (lines 744-746), {} when none.
user_by_email(email) == {u \in DOMAIN admins : email_of(u) = email}

\* What request_password_reset answers (lines 748-830).
reset_request_reply(email, outcome) ==
    LET op == "request_password_reset"
        user == user_by_email(email)
    IN  IF user = {} \/ \E u \in user : ~admins[u].is_active
        THEN Response(op, 0, 0, "", 200,
                 "If that email exists, a password reset link has been sent.")
        ELSE IF outcome = "sent"
        THEN Response(op, 0, 0, "", 200,
                 "Password reset link has been sent to your email.")
        ELSE IF outcome = "Network connectivity issue"
        THEN Rejected(op, 503, "Email service is temporarily unavailable due to network issues. Please try again later or contact administrator.")
        ELSE IF outcome = "authentication failed"
        THEN Rejected(op, 500, "Email service configuration error. Please contact administrator.")
        ELSE Rejected(op, 500, "Failed to send reset email. Please try again later or contact administrator.")

\* POST /api/auth/forgot-password (main.py 733-830)
request_password_reset(email, outcome) ==
    LET cleaned == cleanup_expired_reset_tokens(password_reset_tokens, utcnow)
        user == user_by_email(email)
        reset_token == generated + 1
    IN  /\ IF user = {} \/ \E u \in user : ~admins[u].is_active
           THEN /\ password_reset_tokens' = cleaned
                /\ UNCHANGED generated
           ELSE /\ reset_token \in Tokens
                /\ generated' = reset_token
                /\ password_reset_tokens' =
                       (reset_token :>
                           [user_id |-> CHOOSE u \in user : TRUE,
                            expires_at |-> utcnow + TokenLifetime]) @@ cleaned
        /\ Reply(reset_request_reply(email, outcome))
        /\ UNCHANGED <<password_hash, utcnow, resets>>

\* A del that leaves the token in the dict.
del_nothing(tokens, token) == tokens

\* The dict without the token: del password_reset_tokens[token].
del(tokens, token) == [t \in DOMAIN tokens \ {token} |-> tokens[t]]

\* POST /api/auth/reset-password (main.py 832-882)
reset_password(token, new_password) ==
    LET op == "reset_password"
        token_data == password_reset_tokens[token]
    IN  /\ IF token \notin DOMAIN password_reset_tokens
           THEN /\ Reply(Rejected(op, 400, "Invalid or expired reset token"))
                /\ UNCHANGED <<password_reset_tokens, password_hash, resets>>
           ELSE IF utcnow > token_data.expires_at
           THEN /\ password_reset_tokens' = del(password_reset_tokens, token)
                /\ Reply(Rejected(op, 400, "Reset token has expired. Please request a new one."))
                /\ UNCHANGED <<password_hash, resets>>
           ELSE IF Len(new_password) < 8
           THEN /\ Reply(Rejected(op, 400, "Password must be at least 8 characters long"))
                /\ UNCHANGED <<password_reset_tokens, password_hash, resets>>
           ELSE IF token_data.user_id \notin DOMAIN admins
           THEN /\ Reply(Rejected(op, 404, "User not found"))
                /\ UNCHANGED <<password_reset_tokens, password_hash, resets>>
           ELSE /\ password_hash' =
                      [password_hash EXCEPT ![token_data.user_id] =
                                                get_password_hash(new_password)]
                /\ password_reset_tokens' = del(password_reset_tokens, token)
                /\ resets' = [resets EXCEPT ![token] = @ + 1]
                /\ Reply(Response(op, token_data.user_id, 0, "", 200,
                                  "Password reset successful. You can now login with your new password."))
        /\ UNCHANGED <<utcnow, generated>>

\* GET /api/auth/validate-reset-token/{token} (main.py 884-901)
validate_reset_token(token) ==
    LET op == "validate_reset_token"
    IN  /\ IF token \notin DOMAIN password_reset_tokens
           THEN /\ Reply(Response(op, 0, 0, "", 200, "Invalid token"))
                /\ UNCHANGED password_reset_tokens
           ELSE IF utcnow > password_reset_tokens[token].expires_at
           THEN /\ password_reset_tokens' = del(password_reset_tokens, token)
                /\ Reply(Response(op, 0, 0, "", 200, "Token expired"))
           ELSE /\ Reply(Response(op, password_reset_tokens[token].user_id, 0,
                                  "", 200, "valid"))
                /\ UNCHANGED password_reset_tokens
        /\ UNCHANGED <<password_hash, utcnow, generated, resets>>

\* DELETE /api/admin/users/{user_id}?hard=true (main.py 3534-3542): the user
\* and, by the cascade of Admin.branch_permissions, its permission rows are
\* deleted.
delete_user_hard(actor, user_id) ==
    /\ actor \in DOMAIN admins
    /\ LET gate == AdminGate(actor)
           op == "delete_user"
           kept == {r \in BagToSet(user_branch_permissions) : r.user_id # user_id}
       IN  IF gate.status # 200
           THEN /\ Reply(Rejected(op, gate.status, gate.detail))
                /\ UNCHANGED <<admins, user_branch_permissions>>
           ELSE IF user_id \notin DOMAIN admins
           THEN /\ Reply(Rejected(op, 404, "User not found"))
                /\ UNCHANGED <<admins, user_branch_permissions>>
           ELSE /\ admins' = [u \in DOMAIN admins \ {user_id} |-> admins[u]]
                /\ user_branch_permissions' =
                       [r \in kept |-> user_branch_permissions[r]]
                /\ Reply(Response(op, user_id, 0, "", 200, "User deleted"))
    /\ UNCHANGED branches

\* datetime.utcnow() moves on.
Tick ==
    /\ utcnow < MaxClock
    /\ utcnow' = utcnow + 1
    /\ UNCHANGED <<password_reset_tokens, password_hash, generated, resets>>

(***************************************************************************)
(* The specification of the password reset: users ask for tokens and use   *)
(* them while time passes; the administrator deactivates and deletes the   *)
(* worker.                                                                 *)
(***************************************************************************)
InitReset ==
    /\ admins = [u \in UserIds |->
                    [role |-> IF u = 1 THEN "admin" ELSE "worker",
                     is_active |-> TRUE]]
    /\ branches = (1 :> [is_active |-> TRUE])
    /\ user_branch_permissions = EmptyBag
    /\ last = NoRequest
    /\ menu_items = {}
    /\ inventory = {}
    /\ daily_sales = {}
    /\ daily_expenses = {}
    /\ opening_balances = {}
    /\ sheet = EmptySheet
    /\ export = IdleExport
    /\ exported = NoExport
    /\ manual = IdleExport
    /\ orders = {}
    /\ order_items = {}
    /\ requests = NoRequests
    /\ password_reset_tokens = NoTokens
    /\ password_hash = NoPasswords
    /\ utcnow = 0
    /\ generated = 0
    /\ resets = NoResets

NextReset ==
    \/ \E email \in Emails, outcome \in SendOutcomes :
           request_password_reset(email, outcome)
               /\ UNCHANGED <<permVars, dataVars, sheetVars, orderVars, txVars>>
    \/ \E token \in Tokens, new_password \in Passwords :
           reset_password(token, new_password)
               /\ UNCHANGED <<permVars, dataVars, sheetVars, orderVars, txVars>>
    \/ \E token \in Tokens :
           validate_reset_token(token)
               /\ UNCHANGED <<permVars, dataVars, sheetVars, orderVars, txVars>>
    \/ Tick /\ UNCHANGED <<permVars, last, dataVars, sheetVars, orderVars, txVars>>
    \/ delete_user(1, 2)
           /\ UNCHANGED <<dataVars, sheetVars, orderVars, txVars, resetVars>>
    \/ delete_user_hard(1, 2)
           /\ UNCHANGED <<dataVars, sheetVars, orderVars, txVars, resetVars>>

SpecReset == InitReset /\ [][NextReset]_vars

(***************************************************************************)
(* C28: a token resets a password at most once.                            *)
(***************************************************************************)
\* A token is in the dict and its expiry time has passed.
Expired(token) ==
    /\ token \in DOMAIN password_reset_tokens
    /\ utcnow > password_reset_tokens[token].expires_at

\* C28: a token leads to at most one successful reset_password: the reset
\* that succeeds removes the token, a removed token never comes back, and a
\* reset or validation with a token that is not in the dict fails; a reset
\* with a token past its expiry time is rejected and removes the token; a
\* rejected reset (too short a password, an unknown user, or any other
\* rejection) changes no password.
C28_TokenResetsAtMostOnce ==
    [][/\ \A t \in Tokens : resets'[t] <= 1
       /\ \A t \in Tokens :
             (resets[t] >= 1) => (t \notin DOMAIN password_reset_tokens
                                  /\ t \notin DOMAIN password_reset_tokens')
       /\ \A t \in Tokens, p \in Passwords :
             reset_password(t, p) =>
                /\ last'.status = 200 =>
                      (t \notin DOMAIN password_reset_tokens' /\ resets'[t] = 1)
                /\ t \notin DOMAIN password_reset_tokens => last'.status = 400
                /\ Expired(t) =>
                      (last'.status = 400
                       /\ t \notin DOMAIN password_reset_tokens')
                /\ last'.status # 200 => password_hash' = password_hash
       /\ \A t \in Tokens :
             (validate_reset_token(t) /\ t \notin DOMAIN password_reset_tokens)
                 => last'.detail = "Invalid token"]_vars

\* C28's case: every token has reset a password once, and a later reset,
\* with one of them, has been rejected, a password still the one a reset set.
C28_Witness ==
    /\ last.op = "reset_password"
    /\ last.status = 400
    /\ last.detail = "Invalid or expired reset token"
    /\ \A t \in Tokens : resets[t] = 1
    /\ \E u \in UserIds : password_hash[u] = get_password_hash("longenough1")

(***************************************************************************)
(* C30: what request_password_reset tells its caller.                      *)
(***************************************************************************)
\* The email (or username) is that of an active user.
MatchesActiveUser(email) ==
    \E u \in user_by_email(email) : admins[u].is_active

\* A request_password_reset stores a token only when the email is that of an
\* active user.
TokenOnlyForActiveUser(email) ==
    (DOMAIN password_reset_tokens' \ DOMAIN password_reset_tokens # {})
        => MatchesActiveUser(email)

\* C30: the answer of request_password_reset is the one that a request with
\* any other email would have got in the same state, whether or not that
\* email is the email of an active user; and a token is stored only when an
\* active user matches.
C30_ResetRequestRevealsNothing ==
    [][\A email \in Emails, outcome \in SendOutcomes :
          request_password_reset(email, outcome) =>
              /\ \A other \in Emails :
                    last' = reset_request_reply(other, outcome)
              /\ TokenOnlyForActiveUser(email)]_vars

\* What holds of request_password_reset: a token is stored only when an
\* active user matches, and the requests that match no active user (no such
\* user, or a deactivated one) are all answered alike.
ResetRequestStoresTokenForActiveUserOnly ==
    [][\A email \in Emails, outcome \in SendOutcomes :
          request_password_reset(email, outcome) =>
              /\ TokenOnlyForActiveUser(email)
              /\ ~MatchesActiveUser(email) =>
                    \A other \in Emails :
                        ~MatchesActiveUser(other) =>
                            last' = reset_request_reply(other, outcome)]_vars

(***************************************************************************)
(* main.py: update_order, and the specification of the life of the orders: *)
(* orders are created from a menu of two items and then updated.           *)
(***************************************************************************)
\* order.items: the rows of order_items of the order.
items_of(order_id) == {r \in order_items : r.order_id = order_id}

\* The DailySale rows that update_order adds for a completed order (lines
\* 2377-2379), their ids following first_id in the order of the items;
\* sale_date is the default, the time of the request.
sales_of_order(order, first_id) ==
    LET items == RowsById(items_of(order.id))
    IN  {[id |-> first_id + i - 1,
          branch_id |-> order.branch_id,
          menu_item_id |-> items[i].menu_item_id,
          date |-> Today,
          quantity |-> items[i].quantity,
          revenue |-> items[i].total_price] : i \in DOMAIN items}

\* PATCH /api/orders/{order_id} (main.py 2365-2388). `status` is
\* order_update.status, "" when the request sets only customer_name or
\* customer_email, which the model does not keep.
update_order(actor, order_id, status) ==
    /\ actor \in DOMAIN admins
    /\ LET active == get_current_active_user(get_user(actor))
           op == "update_order"
           order == {o \in orders : o.id = order_id}
           added == UNION {sales_of_order(o, NextId(Ids(daily_sales))) : o \in order}
       IN  IF active.status # 200
           THEN /\ Reply(Rejected(op, active.status, active.detail))
                /\ UNCHANGED <<orders, daily_sales>>
           ELSE IF order = {}
           THEN /\ Reply(Rejected(op, 404, "Order not found"))
                /\ UNCHANGED <<orders, daily_sales>>
           ELSE /\ orders' = IF status = "" THEN orders
                             ELSE (orders \ order)
                                    \cup {[o EXCEPT !.status = status] : o \in order}
                /\ daily_sales' = IF status = "completed"
                                  THEN daily_sales \cup added
                                  ELSE daily_sales
                /\ \A r \in daily_sales' : r.id <= MaxSales
                /\ Reply(Response(op, actor, order_id, "", 200, status))
    /\ UNCHANGED <<menu_items, inventory, daily_expenses, opening_balances,
                   order_items>>

\* order_update.status: none, or one of the states of an order.
OrderStatuses == {"", "preparing", "completed"}

InitOrderStatus ==
    /\ admins = (1 :> [role |-> "admin", is_active |-> TRUE])
    /\ branches = (1 :> [is_active |-> TRUE])
    /\ user_branch_permissions = EmptyBag
    /\ last = NoRequest
    /\ menu_items = {[id |-> i, branch_id |-> 1, price |-> i,
                      is_available |-> TRUE] : i \in MenuIds}
    /\ inventory = {}
    /\ daily_sales = {}
    /\ daily_expenses = {}
    /\ opening_balances = {}
    /\ sheet = EmptySheet
    /\ export = IdleExport
    /\ exported = NoExport
    /\ manual = IdleExport
    /\ orders = {}
    /\ order_items = {}
    /\ requests = NoRequests
    /\ password_reset_tokens = NoTokens
    /\ password_hash = NoPasswords
    /\ utcnow = 0
    /\ generated = 0
    /\ resets = NoResets

NextOrderStatus ==
    \/ \E items \in OrderRequests :
           create_order(1, items)
               /\ UNCHANGED <<permVars, dataVars, sheetVars, txVars, resetVars>>
    \/ \E o \in 1..MaxOrders, status \in OrderStatuses :
           update_order(1, o, status)
               /\ UNCHANGED <<permVars, sheetVars, txVars, resetVars>>

SpecOrderStatus == InitOrderStatus /\ [][NextOrderStatus]_vars

(***************************************************************************)
(* C29: the sales of an order.                                             *)
(***************************************************************************)
\* The order has the status completed.
Completed(order_id) ==
    \E o \in orders : o.id = order_id /\ o.status = "completed"

\* The step added one DailySale for every item of the order, with the
\* branch of the order and the quantity and total_price of the item.
OneSalePerItem(order_id) ==
    LET added == daily_sales' \ daily_sales
        items == items_of(order_id)
    IN  /\ daily_sales \subseteq daily_sales'
        /\ Cardinality(added) = Cardinality(items)
        /\ \E sale \in [items -> added] :
              /\ \A i, j \in items : sale[i] = sale[j] => i = j
              /\ \A i \in items :
                    /\ sale[i].menu_item_id = i.menu_item_id
                    /\ sale[i].quantity = i.quantity
                    /\ sale[i].revenue = i.total_price
                    /\ \E o \in orders : o.id = order_id
                                         /\ sale[i].branch_id = o.branch_id

\* C29: an update_order that completes an order adds one DailySale for each
\* of its items, with the branch of the order and the quantity and
\* total_price of the item; an update_order of an order that is already
\* completed, to completed again or of another field, adds no DailySale.
C29_EachItemSoldOnce ==
    [][\A o \in 1..MaxOrders, status \in OrderStatuses :
          (update_order(1, o, status) /\ last'.status = 200) =>
              IF Completed(o) THEN daily_sales' = daily_sales
              ELSE IF status = "completed" THEN OneSalePerItem(o)
              ELSE daily_sales' = daily_sales]_vars

\* What holds of update_order: the update that completes an order that was
\* not completed adds one DailySale for each item, and an update without
\* the status completed adds none.
FirstCompletionSellsEachItemOnce ==
    [][\A o \in 1..MaxOrders, status \in OrderStatuses :
          (update_order(1, o, status) /\ last'.status = 200) =>
              IF status = "completed"
              THEN Completed(o) \/ OneSalePerItem(o)
              ELSE daily_sales' = daily_sales]_vars

====
